---- MODULE Spec2Model ----
(***************************************************************************)
(* Bridge-null engine of ccc_clock: the adaptive bracket, the Brent-style  *)
(* scalar minimiser, the epsilon-continuation drivers and the iterative    *)
(* searches with an iteration ceiling.                                     *)
(*                                                                         *)
(* Arithmetic.  The Python code computes in binary64.  Here a parameter R  *)
(* is an integer number of 1/RS, a matrix entry an integer number of 1/MU, *)
(* and a division rounds to the nearest unit (RDiv), which stands for the  *)
(* rounding of the floating-point division.  eps and every quantity that   *)
(* carries a factor eps (residual, bound, tolerance) is an exact rational  *)
(* [n, d] with d > 0.                                                      *)
(***************************************************************************)
EXTENDS Integers, Sequences, FiniteSets, TLC

VARIABLES brent, brk, drv, jd, ow, call, dash

vars == <<brent, brk, drv, jd, ow, call, dash>>

(***************************************************************************)
(* Scalar helpers                                                          *)
(***************************************************************************)
Abs(x) == IF x < 0 THEN -x ELSE x

Max2(x, y) == IF x >= y THEN x ELSE y

Min2(x, y) == IF x <= y THEN x ELSE y

\* np.sign
Sign(x) == IF x > 0 THEN 1 ELSE IF x < 0 THEN -1 ELSE 0

\* p / q rounded to the nearest unit, ties away from zero (q # 0)
RDiv(p, q) ==
    LET ap == Abs(p)
        aq == Abs(q)
        m  == (2 * ap + aq) \div (2 * aq)
    IN  IF (p < 0) = (q < 0) THEN m ELSE -m

RECURSIVE ISqrtBin(_, _, _)
ISqrtBin(n, lo, hi) ==
    IF hi - lo <= 1 THEN lo
    ELSE LET mid == (lo + hi) \div 2
         IN  IF mid * mid <= n THEN ISqrtBin(n, mid, hi) ELSE ISqrtBin(n, lo, mid)

\* floor(sqrt(n)), n >= 0: np.sqrt / the square root inside a norm
ISqrt(n) == IF n < 2 THEN n ELSE ISqrtBin(n, 1, Min2(n, 46341))

RECURSIVE Gcd(_, _)
Gcd(x, y) == IF y = 0 THEN x ELSE Gcd(y, x % y)

(***************************************************************************)
(* Exact rationals [n |-> numerator, d |-> denominator > 0]                *)
(***************************************************************************)
Rat(n, d) ==
    LET g == Gcd(Abs(n), Abs(d))
        s == IF d < 0 THEN -1 ELSE 1
    IN  IF g = 0 THEN [n |-> 0, d |-> 1]
        ELSE [n |-> s * (n \div g), d |-> s * (d \div g)]

RInt(k) == [n |-> k, d |-> 1]

RMul(p, q) == Rat(p.n * q.n, p.d * q.d)

RAdd(p, q) == Rat(p.n * q.d + q.n * p.d, p.d * q.d)

RLeq(p, q) == p.n * q.d <= q.n * p.d

RLt(p, q) == p.n * q.d < q.n * p.d

REq(p, q) == p.n * q.d = q.n * p.d

RMax(p, q) == IF RLeq(q, p) THEN p ELSE q

(***************************************************************************)
(* Units and program constants                                             *)
(***************************************************************************)
\* one unit of R is 1/RS
RS == 16

\* one unit of a matrix entry is 1/MU
MU == 4

\* eps = np.sqrt(np.finfo(float).eps) = 2^-26, as 1/SqrtEpsDen
SqrtEpsDen == 67108864

\* rel_margin = 1e-3, as RelMarginNum/RelMarginDen
RelMarginNum == 1

RelMarginDen == 1000

\* expand_factor = 2.0
ExpandFactor == 2

\* max_expansions = 12
MaxExpansions == 12

\* min_iter = 5 as passed by the drivers; max_iter = 200 by default
DriverMinIter == 5

DriverMaxIter == 200

(***************************************************************************)
(* 2x2 real symmetric matrices <<a, b, c>> = [[a, b], [b, c]]              *)
(***************************************************************************)
MZero == <<0, 0, 0>>

MAdd(A, B) == <<A[1] + B[1], A[2] + B[2], A[3] + B[3]>>

\* A * (p/q), entry by entry
MScale(A, p, q) == <<RDiv(A[1] * p, q), RDiv(A[2] * p, q), RDiv(A[3] * p, q)>>

\* sqrt((a - c)^2 + 4 b^2): the gap between the two eigenvalues
EigGap(A) == ISqrt((A[1] - A[3]) * (A[1] - A[3]) + 4 * A[2] * A[2])

\* np.linalg.norm(A, ord=2) = max |eigenvalue|
Norm2(A) == RDiv(Abs(A[1] + A[3]) + EigGap(A), 2)

\* np.linalg.norm(A, ord='fro')
NormFro(A) == ISqrt(A[1] * A[1] + 2 * A[2] * A[2] + A[3] * A[3])

\* np.min(np.linalg.eigvalsh(A)), doubled
EigMin2(A) == (A[1] + A[3]) - EigGap(A)

\* A @ B - B @ A = [[0, t], [-t, 0]]
CommT(A, B) == A[1] * B[2] + A[2] * B[3] - B[1] * A[2] - B[2] * A[3]

\* spectral norm of the commutator (units 1/MU^2)
CommNorm2(A, B) == Abs(CommT(A, B))

\* Frobenius norm of the commutator (units 1/MU^2)
CommNormFro(A, B) == ISqrt(2 * CommT(A, B) * CommT(A, B))

(***************************************************************************)
(* Edges: [N |-> matrix, D |-> matrix].  A list of edges is a sequence of  *)
(* object identities into a heap, as a Python list of references is.       *)
(***************************************************************************)
RECURSIVE SumN(_, _, _)
SumN(heap, edges, i) ==
    IF i > Len(edges) THEN MZero ELSE MAdd(heap[edges[i]].N, SumN(heap, edges, i + 1))

RECURSIVE SumD(_, _, _)
SumD(heap, edges, i) ==
    IF i > Len(edges) THEN MZero ELSE MAdd(heap[edges[i]].D, SumD(heap, edges, i + 1))

\* sum over the edges of B = e.N - R * e.D, in units 1/(RS*MU).
\* _expm is SciPy's; exp(-eps*B) is taken to first order in eps, so that
\* U - I = -eps * (sum of B) and the residual is eps * CycleNorm.
CycleB(heap, edges, R) ==
    LET sn == SumN(heap, edges, 1)
        sd == SumD(heap, edges, 1)
    IN  <<RS * sn[1] - R * sd[1], RS * sn[2] - R * sd[2], RS * sn[3] - R * sd[3]>>

cycle_residual_fro(heap, edges, R) ==
    IF Len(edges) = 0 THEN 0 ELSE NormFro(CycleB(heap, edges, R))

cycle_residual_spec(heap, edges, R) ==
    IF Len(edges) = 0 THEN 0 ELSE Norm2(CycleB(heap, edges, R))

(***************************************************************************)
(* Objectives handed to the bracket and to the minimiser.  "fro" and       *)
(* "spec" are the drivers' lambdas without their factor eps (a positive    *)
(* factor changes no comparison and no step of either routine); the other  *)
(* kinds are the test objectives of the stand-alone runs.                  *)
(***************************************************************************)
Obj(fd, u) ==
    CASE fd.kind = "fro"  -> cycle_residual_fro(fd.heap, fd.edges, u)
      [] fd.kind = "spec" -> cycle_residual_spec(fd.heap, fd.edges, u)
      [] fd.kind = "vee"  -> fd.k * Abs(u - fd.m)
      [] fd.kind = "quad" -> fd.k * (u - fd.m) * (u - fd.m)
      [] fd.kind = "flat" -> fd.k
      [] fd.kind = "ramp" -> fd.k * Max2(0, u - fd.m)

(***************************************************************************)
(* _adaptive_bracket (Uploads/bridge_null.py)                              *)
(***************************************************************************)
\* lines 226-229: the first triple and its three evaluations
AdaptiveBracketInit(fd, R0, halfspan, max_expansions) ==
    [fd |-> fd, R0 |-> R0, halfspan |-> halfspan, max_expansions |-> max_expansions,
     a |-> R0 - 3 * halfspan, b |-> R0, c |-> R0 + 3 * halfspan,
     f_a |-> Obj(fd, R0 - 3 * halfspan), f_b |-> Obj(fd, R0),
     f_c |-> Obj(fd, R0 + 3 * halfspan),
     n |-> 0,
     pc |-> IF max_expansions = 0 THEN "ret" ELSE "loop",
     exit |-> IF max_expansions = 0 THEN "exhausted" ELSE "none"]

\* line 232: f_b <= max_end * (1.0 - rel_margin)
MarginHolds(f_b, max_end) ==
    RelMarginDen * f_b <= (RelMarginDen - RelMarginNum) * max_end

\* lines 230-237: one pass of the for loop
AdaptiveBracketIterate(s) ==
    LET max_end == Max2(s.f_a, s.f_c)
    IN  IF MarginHolds(s.f_b, max_end)
        THEN [s EXCEPT !.pc = "ret", !.exit = "margin"]
        ELSE LET h == s.halfspan * ExpandFactor
                 na == s.R0 - 3 * h
                 nc == s.R0 + 3 * h
             IN  [s EXCEPT !.halfspan = h, !.a = na, !.c = nc,
                           !.f_a = Obj(s.fd, na), !.f_c = Obj(s.fd, nc),
                           !.n = s.n + 1,
                           !.pc = IF s.n + 1 >= s.max_expansions THEN "ret" ELSE "loop",
                           !.exit = IF s.n + 1 >= s.max_expansions
                                    THEN "exhausted" ELSE "none"]

RECURSIVE AdaptiveBracketRun(_)
AdaptiveBracketRun(s) ==
    IF s.pc = "loop" THEN AdaptiveBracketRun(AdaptiveBracketIterate(s)) ELSE s

\* _adaptive_bracket(f, R0, halfspan) with its defaults, as the drivers call it
AdaptiveBracket(fd, R0, halfspan) ==
    AdaptiveBracketRun(AdaptiveBracketInit(fd, R0, halfspan, MaxExpansions))

(***************************************************************************)
(* _adaptive_bracket (src/analysis/experiments_bridge_null.py)             *)
(***************************************************************************)
SimpleBracket(fd, x0, halfspan) ==
    LET a0 == x0 - halfspan
        b0 == x0
        c0 == x0 + halfspan
        fa0 == Obj(fd, a0)
        fb0 == Obj(fd, b0)
        fc0 == Obj(fd, c0)
        \* if fb > fa: a, b = b, a
        a1 == IF fb0 > fa0 THEN b0 ELSE a0
        b1 == IF fb0 > fa0 THEN a0 ELSE b0
        fb1 == IF fb0 > fa0 THEN fa0 ELSE fb0
        \* if fb > fc: b, c = c, b
        b2 == IF fb1 > fc0 THEN c0 ELSE b1
        c2 == IF fb1 > fc0 THEN b1 ELSE c0
    IN  [a |-> a1, b |-> b2, c |-> c2]

(***************************************************************************)
(* _brent_scalar (Uploads/bridge_null.py)                                  *)
(***************************************************************************)
\* lines 168-170; range(0) never binds `it`, and the return then raises
BrentInit(fd, a, b, c, param_tol, obj_tol, max_iter, min_iter) ==
    [fd |-> fd, a |-> a, c |-> c, x |-> b, w |-> b, v |-> b,
     fx |-> Obj(fd, b), fw |-> Obj(fd, b), fv |-> Obj(fd, b),
     d |-> 0, e |-> 0, it |-> 0,
     param_tol |-> param_tol, obj_tol |-> obj_tol,
     max_iter |-> max_iter, min_iter |-> min_iter,
     u |-> b, ua |-> a, uc |-> c, ntrial |-> 0,
     a0 |-> a, b |-> b, c0 |-> c,
     pc |-> IF max_iter = 0 THEN "raise" ELSE "loop", exit |-> "none"]

\* line 174: tol1 = eps * abs(x) + param_tol
BrentTol1(s) == (Abs(s.x) \div SqrtEpsDen) + s.param_tol

\* line 176, first conjunct, doubled: abs(x - xm) <= tol2 - 0.5 * (c - a)
BrentParamTest(s) ==
    Abs(2 * s.x - (s.a + s.c)) <= 4 * BrentTol1(s) - (s.c - s.a)

\* line 176
BrentTopBreak(s) == BrentParamTest(s) /\ s.it >= s.min_iter

\* lines 194-195 and 197-198: the section step
BrentSection(s) ==
    LET e1 == IF 2 * s.x >= s.a + s.c THEN s.c - s.x ELSE s.a - s.x
    IN  [d |-> RDiv(e1, 2), e |-> e1]

\* lines 178-198: the step d and the previous-step memory e
BrentStep(s) ==
    LET tol1 == BrentTol1(s)
        tol2 == 2 * tol1
    IN  IF Abs(s.e) > tol1
        THEN LET r  == (s.x - s.w) * (s.fx - s.fv)
                 q0 == (s.x - s.v) * (s.fx - s.fw)
                 p0 == (s.x - s.v) * q0 - (s.x - s.w) * r
                 q1 == 2 * (q0 - r)
                 p1 == IF q1 > 0 THEN -p0 ELSE p0
                 q2 == Abs(q1)
                 etemp == s.e
             IN  IF /\ 2 * Abs(p1) < Abs(q2 * etemp)
                    /\ p1 > q2 * (s.a - s.x)
                    /\ p1 < q2 * (s.c - s.x)
                 THEN LET d1 == RDiv(p1, q2)
                          u1 == s.x + d1
                      IN  [d |-> IF (u1 - s.a) < tol2 \/ (s.c - u1) < tol2
                                 THEN Sign(s.a + s.c - 2 * s.x) * tol1
                                 ELSE d1,
                           e |-> s.d]
                 ELSE BrentSection(s)
        ELSE BrentSection(s)

\* line 199: u = x + (d if abs(d) >= tol1 else np.sign(d) * tol1)
BrentTrial(s, d) ==
    s.x + (IF Abs(d) >= BrentTol1(s) THEN d ELSE Sign(d) * BrentTol1(s))

\* lines 201-217: the bracket and the three best points after evaluating u
BrentUpdate(s, u, fu) ==
    IF fu <= s.fx
    THEN [s EXCEPT !.a = IF u >= s.x THEN s.x ELSE s.a,
                   !.c = IF u >= s.x THEN s.c ELSE s.x,
                   !.v = s.w, !.w = s.x, !.x = u,
                   !.fv = s.fw, !.fw = s.fx, !.fx = fu]
    ELSE LET t == [s EXCEPT !.a = IF u < s.x THEN u ELSE s.a,
                            !.c = IF u < s.x THEN s.c ELSE u]
         IN  IF fu <= s.fw \/ s.w = s.x
             THEN [t EXCEPT !.v = s.w, !.w = u, !.fv = s.fw, !.fw = fu]
             ELSE IF fu <= s.fv \/ s.v = s.x \/ s.v = s.w
                  THEN [t EXCEPT !.v = u, !.fv = fu]
                  ELSE t

\* the test of line 218 against the second-best value instead of fx itself
BrentBottomBreakPrev(s) ==
    s.it >= s.min_iter /\ Abs(s.fx - s.fw) < s.obj_tol

\* line 218: it >= min_iter and abs(fx - (f_opt := fx)) < obj_tol
BrentBottomBreak(s) ==
    LET f_opt == s.fx
    IN  s.it >= s.min_iter /\ Abs(s.fx - f_opt) < s.obj_tol

\* one pass of a loop that does not look at max_iter
BrentIterateNoCeiling(s) ==
    IF BrentTopBreak(s)
    THEN [s EXCEPT !.pc = "ret", !.exit = "param"]
    ELSE LET de == BrentStep(s)
             u  == BrentTrial(s, de.d)
             t0 == [s EXCEPT !.d = de.d, !.e = de.e,
                             !.u = u, !.ua = s.a, !.uc = s.c,
                             !.ntrial = s.ntrial + 1]
             t  == BrentUpdate(t0, u, Obj(s.fd, u))
         IN  IF BrentBottomBreak(t)
             THEN [t EXCEPT !.pc = "ret", !.exit = "obj"]
             ELSE [t EXCEPT !.it = s.it + 1]

\* lines 172-219: one pass of the for loop
BrentIterate(s) ==
    IF BrentTopBreak(s)
    THEN [s EXCEPT !.pc = "ret", !.exit = "param"]
    ELSE LET de == BrentStep(s)
             u  == BrentTrial(s, de.d)
             t0 == [s EXCEPT !.d = de.d, !.e = de.e,
                             !.u = u, !.ua = s.a, !.uc = s.c,
                             !.ntrial = s.ntrial + 1]
             t  == BrentUpdate(t0, u, Obj(s.fd, u))
         IN  IF BrentBottomBreak(t)
             THEN [t EXCEPT !.pc = "ret", !.exit = "obj"]
             ELSE IF s.it + 1 >= s.max_iter
                  THEN [t EXCEPT !.pc = "ret", !.exit = "cap"]
                  ELSE [t EXCEPT !.it = s.it + 1]

RECURSIVE BrentRun(_)
BrentRun(s) == IF s.pc = "loop" THEN BrentRun(BrentIterate(s)) ELSE s

\* line 220: return x, fx, it + 1
BrentResult(s) == [x |-> s.x, fx |-> s.fx, iters |-> s.it + 1]

(***************************************************************************)
(* Stand-alone runs of the bracket and of the minimiser                    *)
(***************************************************************************)
Idle == [pc |-> "idle"]

\* bounds of the stand-alone runs
BMaxIter == 4

BMinIter == 2

BMaxExp == 3

BMaxObjTol == 1

TestObjectives ==
    {[kind |-> "vee", m |-> m, k |-> k] : m \in {-5, 3, 40}, k \in {1, 3}}
    \cup {[kind |-> "quad", m |-> m, k |-> 1] : m \in {-5, 3}}
    \cup {[kind |-> "flat", m |-> 0, k |-> k] : k \in {0, 2}}
    \cup {[kind |-> "ramp", m |-> m, k |-> 2] : m \in {-5, 3}}

TestCenters == {0, 6}

TestWidths == {0, 1, 2, 9}

InitBrent ==
    /\ brent \in {BrentInit(fd, b - wl, b, b + wr, pt, ot, mx, mn) :
                    fd \in TestObjectives, b \in TestCenters,
                    wl \in TestWidths, wr \in TestWidths,
                    pt \in {1, 2}, ot \in 0..BMaxObjTol,
                    mx \in 0..BMaxIter, mn \in 0..BMinIter}
    /\ brk = Idle
    /\ drv = Idle
    /\ jd = Idle
    /\ ow = Idle
    /\ call = Idle
    /\ dash = Idle

\* one pass of the for loop of _brent_scalar
BrentIter ==
    /\ brent.pc = "loop"
    /\ brent' = BrentIterate(brent)
    /\ UNCHANGED <<brk, drv, jd, ow, call, dash>>

\* return x, fx, it + 1
BrentReturn ==
    /\ brent.pc = "ret"
    /\ brent' = [brent EXCEPT !.pc = "done"]
    /\ UNCHANGED <<brk, drv, jd, ow, call, dash>>

NextBrent == BrentIter \/ BrentReturn

SpecBrent == InitBrent /\ [][NextBrent]_vars

InitBracket ==
    /\ brk \in {AdaptiveBracketInit(fd, R0, h, mx) :
                  fd \in TestObjectives, R0 \in TestCenters \cup {3, 44},
                  h \in {0, 1, 2, 5}, mx \in 0..BMaxExp}
    /\ brent = Idle
    /\ drv = Idle
    /\ jd = Idle
    /\ ow = Idle
    /\ call = Idle
    /\ dash = Idle

\* one pass of the for loop of _adaptive_bracket
BracketIter ==
    /\ brk.pc = "loop"
    /\ brk' = AdaptiveBracketIterate(brk)
    /\ UNCHANGED <<brent, drv, jd, ow, call, dash>>

\* return a, b, c
BracketReturn ==
    /\ brk.pc = "ret"
    /\ brk' = [brk EXCEPT !.pc = "done"]
    /\ UNCHANGED <<brent, drv, jd, ow, call, dash>>

NextBracket == BracketIter \/ BracketReturn

SpecBracket == InitBracket /\ [][NextBracket]_vars

(***************************************************************************)
(* Helpers of the drivers, Uploads/bridge_null.py                          *)
(***************************************************************************)
SetMax(S) == CHOOSE x \in S : \A y \in S : y <= x

\* delta = 1e-6 * max(1.0, norm(D, 2)), the factor as RegNum/RegDen
RegNum == 1

RegDen == 1000000

RegDelta(D) == RDiv(Max2(MU, Norm2(D)) * RegNum, RegDen)

\* _regularise_D: in place, in list order; one warning per regularised edge; the part
\* of delta below the unit is counted in Dtiny
RECURSIVE RegulariseD(_, _, _)
RegulariseD(st, edges, i) ==
    IF i > Len(edges) THEN st
    ELSE LET D == st.heap[edges[i]].D
         IN  IF EigMin2(D) <= 0
             THEN RegulariseD(
                    [heap |-> [st.heap EXCEPT ![edges[i]].D =
                                  MAdd(D, <<RegDelta(D), 0, RegDelta(D)>>),
                               ![edges[i]].Dtiny = @ + 1],
                     warnings |-> Append(st.warnings, "D_not_PD")],
                    edges, i + 1)
             ELSE RegulariseD(st, edges, i + 1)

PairsLt(m) == {q \in (1..m) \X (1..m) : q[1] < q[2]}

PairsAll(m) == (1..m) \X (1..m)

\* commutator_diagnostics: spectral norm; N-N and D-D over i < j, N-D over all (i, j)
commutator_diagnostics(heap, edges) ==
    LET m == Len(edges)
        E(i) == heap[edges[i]]
    IN  [max_NN_comm |-> SetMax({0} \cup {CommNorm2(E(q[1]).N, E(q[2]).N) : q \in PairsLt(m)}),
         max_DD_comm |-> SetMax({0} \cup {CommNorm2(E(q[1]).D, E(q[2]).D) : q \in PairsLt(m)}),
         max_ND_comm |-> SetMax({0} \cup {CommNorm2(E(q[1]).N, E(q[2]).D) : q \in PairsAll(m)})]

\* is_effectively_commuting(comm_diag, atol = 1e-12): every maximum below atol,
\* which no non-zero multiple of the unit is
is_effectively_commuting(cd) ==
    cd.max_NN_comm = 0 /\ cd.max_DD_comm = 0 /\ cd.max_ND_comm = 0

\* max over the edges of norm(N, 2) and norm(D, 2)
RECURSIVE MaxNorm(_, _, _)
MaxNorm(heap, edges, i) ==
    IF i > Len(edges) THEN 0
    ELSE Max2(Max2(Norm2(heap[edges[i]].N), Norm2(heap[edges[i]].D)),
              MaxNorm(heap, edges, i + 1))

\* scale = 1.0 / np.sqrt(max_norm) as a fraction p/q; 1.0 when max_norm = 0
ScaleFactor(heap, edges) ==
    LET mn == MaxNorm(heap, edges, 1)
    IN  IF mn = 0 THEN [n |-> 1, d |-> 1] ELSE Rat(ISqrt(MU * mn), mn)

\* for e in edges: e.N *= scale; e.D *= scale  (in place, once per list slot)
RECURSIVE ScaleLoop(_, _, _, _)
ScaleLoop(heap, edges, i, sc) ==
    IF i > Len(edges) THEN heap
    ELSE ScaleLoop([heap EXCEPT ![edges[i]].N = MScale(@, sc.n, sc.d),
                                ![edges[i]].D = MScale(@, sc.n, sc.d)],
                   edges, i + 1, sc)

\* _scale_edges: the heap after the call
ScaleEdges(heap, edges) ==
    IF MaxNorm(heap, edges, 1) = 0 THEN heap
    ELSE ScaleLoop(heap, edges, 1, ScaleFactor(heap, edges))

\* Dmh @ e.N @ Dmh for a diagonal positive-definite e.D, in units 1/RS
Whitened(e) ==
    <<RDiv(e.N[1] * RS, e.D[1]),
      RDiv(e.N[2] * RS, ISqrt(e.D[1] * e.D[3])),
      RDiv(e.N[3] * RS, e.D[3])>>

RECURSIVE SumWhitened(_, _, _)
SumWhitened(heap, edges, i) ==
    IF i > Len(edges) THEN MZero
    ELSE MAdd(Whitened(heap[edges[i]]), SumWhitened(heap, edges, i + 1))

\* the centre without the division by the edge count m
aggregate_center_R0_NoCount(heap, edges) ==
    IF Len(edges) = 0 THEN [ok |-> FALSE, R0 |-> 0, halfspan |-> 0]
    ELSE LET A == SumWhitened(heap, edges, 1)
         IN  [ok |-> TRUE,
              R0 |-> RDiv(A[1] + A[3], 2),
              halfspan |-> RDiv(EigGap(A), 2)]

\* aggregate_center_R0; A stays None for an empty list and eigvalsh(None) raises
aggregate_center_R0(heap, edges) ==
    IF Len(edges) = 0 THEN [ok |-> FALSE, R0 |-> 0, halfspan |-> 0]
    ELSE LET A == SumWhitened(heap, edges, 1)
             m == Len(edges)
         IN  [ok |-> TRUE,
              R0 |-> RDiv(A[1] + A[3], 2 * m),
              halfspan |-> RDiv(EigGap(A), 2 * m)]

(***************************************************************************)
(* Helpers of the drivers, src/analysis/experiments_bridge_null.py         *)
(***************************************************************************)
\* _regularise_D: edge.D = edge.D + 1e-12 * I for every list slot; the shift is
\* below the unit and is counted in Dtiny
RECURSIVE ExpRegulariseD(_, _, _)
ExpRegulariseD(heap, edges, i) ==
    IF i > Len(edges) THEN heap
    ELSE ExpRegulariseD([heap EXCEPT ![edges[i]].Dtiny = @ + 1], edges, i + 1)

PairsNe(m) == {q \in (1..m) \X (1..m) : q[1] # q[2]}

\* commutator_diagnostics: Frobenius norm, pairs i # j only
exp_commutator_diagnostics(heap, edges) ==
    LET m == Len(edges)
        E(i) == heap[edges[i]]
    IN  [max_ND_comm |-> SetMax({0} \cup {CommNormFro(E(q[1]).N, E(q[2]).D) : q \in PairsNe(m)}),
         max_NN_comm |-> SetMax({0} \cup {CommNormFro(E(q[1]).N, E(q[2]).N) : q \in PairsNe(m)}),
         max_DD_comm |-> SetMax({0} \cup {CommNormFro(E(q[1]).D, E(q[2]).D) : q \in PairsNe(m)})]

RECURSIVE TraceN(_, _, _)
TraceN(heap, edges, i) ==
    IF i > Len(edges) THEN 0
    ELSE heap[edges[i]].N[1] + heap[edges[i]].N[3] + TraceN(heap, edges, i + 1)

RECURSIVE TraceD(_, _, _)
TraceD(heap, edges, i) ==
    IF i > Len(edges) THEN 0
    ELSE heap[edges[i]].D[1] + heap[edges[i]].D[3] + TraceD(heap, edges, i + 1)

\* aggregate_center_R0: R0 = N_trace / (D_trace + 1e-12), halfspan = max(0.5, |R0| / 2);
\* with D_trace = 0 the quotient is N_trace / 1e-12, which is 0 when N_trace = 0
exp_aggregate_center_R0(heap, edges) ==
    LET nt == TraceN(heap, edges, 1)
        dt == TraceD(heap, edges, 1)
        R0 == IF dt = 0 THEN nt * RS * 1000000 ELSE RDiv(nt * RS, dt)
    IN  [ok |-> TRUE, R0 |-> R0, halfspan |-> Max2(RS \div 2, RDiv(Abs(R0), 2))]

SetMin(S) == CHOOSE x \in S : \A y \in S : x <= y

\* the grid points of [lo, hi] where the objective is least
ArgMinSet(fd, lo, hi) ==
    LET least == SetMin({Obj(fd, y) : y \in lo..hi})
    IN  {x \in lo..hi : Obj(fd, x) = least}

\* _brent_scalar: scipy.optimize.minimize_scalar(f, bounds=(min(a,c), max(a,c)),
\* method='bounded'), taken by its contract: the minimiser over the interval
\* (the leftmost one); nit is SciPy's own iteration count
exp_brent_scalar(fd, a, b, c, nit, min_iter) ==
    LET lo == Min2(a, c)
        hi == Max2(a, c)
        x  == SetMin(ArgMinSet(fd, lo, hi))
    IN  [x |-> x, fx |-> Obj(fd, x), iters |-> Max2(nit, min_iter)]

(***************************************************************************)
(* alpha_hat and the dynamic tolerance                                     *)
(***************************************************************************)
\* p / q for rationals, q # 0
RQuot(p, q) == Rat(p.n * q.d, p.d * q.n)

RECURSIVE InsertSorted(_, _)
InsertSorted(sq, r) ==
    IF sq = <<>> THEN <<r>>
    ELSE IF RLeq(r, Head(sq)) THEN <<r>> \o sq
         ELSE <<Head(sq)>> \o InsertSorted(Tail(sq), r)

RECURSIVE SortRat(_)
SortRat(sq) == IF sq = <<>> THEN <<>> ELSE InsertSorted(SortRat(Tail(sq)), Head(sq))

\* np.median
Median(sq) ==
    LET t == SortRat(sq)
        n == Len(t)
    IN  IF n % 2 = 1 THEN t[(n + 1) \div 2]
        ELSE RMul(RAdd(t[n \div 2], t[n \div 2 + 1]), Rat(1, 2))

\* eps * max_ND_comm as a rational (a commutator norm is in units 1/MU^2)
EpsComm(eps, max_ND_comm) == RMul(eps, Rat(max_ND_comm, MU * MU))

\* h["residual"] / (h["eps"] * max_ND_comm + 1e-300): the floor 1e-300 is absorbed
\* by a non-zero product and is the whole divisor otherwise; tiny marks a value
\* that is to be read in units of 1/floor
Ratio(h, max_ND_comm) ==
    LET den == EpsComm(h.eps, max_ND_comm)
    IN  IF den.n = 0 THEN [v |-> h.residual, tiny |-> TRUE]
        ELSE [v |-> RQuot(h.residual, den), tiny |-> FALSE]

RECURSIVE RatioValues(_, _, _)
RatioValues(history, max_ND_comm, i) ==
    IF i > Len(history) THEN <<>>
    ELSE IF history[i].eps.n > 0
         THEN <<Ratio(history[i], max_ND_comm).v>> \o RatioValues(history, max_ND_comm, i + 1)
         ELSE RatioValues(history, max_ND_comm, i + 1)

\* alpha_hat_from_history (Uploads): the median of the ratios, 1.0 without any
alpha_hat_from_history(history, max_ND_comm) ==
    LET ratios == RatioValues(history, max_ND_comm, 1)
    IN  IF ratios = <<>> THEN [v |-> RInt(1), tiny |-> FALSE]
        ELSE [v |-> Median(ratios), tiny |-> max_ND_comm = 0]

\* alpha_hat_from_history (experiments): the ratio of the last entry, 1.0 without any
exp_alpha_hat_from_history(history, max_ND_comm) ==
    IF history = <<>> THEN [v |-> RInt(1), tiny |-> FALSE]
    ELSE Ratio(history[Len(history)], max_ND_comm)

\* floor = alpha_hat * history[-1]["eps"] * comm_diag["max_ND_comm"]
DynFloor(alpha_hat, eps, max_ND_comm) ==
    IF max_ND_comm = 0 THEN RInt(0)
    ELSE RMul(alpha_hat.v, EpsComm(eps, max_ND_comm))

\* tol_dyn = max(residual_tol, floor * 1.10)
DynTol(residual_tol, floor) == RMax(residual_tol, RMul(floor, Rat(11, 10)))

(***************************************************************************)
(* The continuation drivers                                                *)
(*   "refined"     bridge_null_refined,  Uploads/bridge_null.py            *)
(*   "spectral"    bridge_null_spectral, experiments_bridge_null.py        *)
(*   "refined_exp" bridge_null_refined,  experiments_bridge_null.py        *)
(***************************************************************************)
\* the edge objects of the test problems, entries in units 1/MU
EdgeHeap ==
    [i \in 1..7 |->
        CASE i = 1 -> [N |-> <<16, 0, 4>>,  D |-> <<16, 0, 4>>,  Dtiny |-> 0]
          [] i = 2 -> [N |-> <<4, 0, 4>>,   D |-> <<4, 0, 4>>,   Dtiny |-> 0]
          [] i = 3 -> [N |-> <<16, 0, 16>>, D |-> <<8, 0, 8>>,   Dtiny |-> 0]
          [] i = 4 -> [N |-> <<4, 0, 0>>,   D |-> <<4, 0, 4>>,   Dtiny |-> 0]
          [] i = 5 -> [N |-> <<0, 0, 16>>,  D |-> <<16, 0, 16>>, Dtiny |-> 0]
          [] i = 6 -> [N |-> <<8, 8, 8>>,   D |-> <<16, 0, 4>>,  Dtiny |-> 0]
          [] i = 7 -> [N |-> <<12, 0, 4>>,  D |-> <<4, 0, 4>>,   Dtiny |-> 0]]

\* the edge lists handed to a driver; <<1, 1>> holds one object twice
EdgeLists ==
    {<<>>, <<1>>, <<2>>, <<3>>, <<4>>, <<6>>, <<1, 2>>, <<1, 1>>, <<4, 5>>,
     <<6, 1>>, <<7, 1>>, <<2, 6>>, <<3, 3>>}

\* the deepest eps_target is 1/2^DTargetExp
DTargetExp == 3

RECURSIVE Pow2(_)
Pow2(k) == IF k = 0 THEN 1 ELSE 2 * Pow2(k - 1)

EpsStarts == {Rat(1, 1), Rat(1, 4)}

EpsTargets == {Rat(1, Pow2(k)) : k \in 0..DTargetExp} \cup {Rat(2, 1)}

EpsFactors == {Rat(1, 2), Rat(1, 3)}

ResidualTols == {Rat(1, 4), Rat(1, 32), Rat(45, 128)}

ParamTols == {1}

Variants == {"refined", "spectral", "refined_exp"}

NoInfo == [status |-> "none"]

InitDriver ==
    /\ drv \in {[variant |-> vr, heap |-> EdgeHeap, edges |-> el,
                 eps_start |-> es, eps_target |-> et, eps_factor |-> ef,
                 residual_tol |-> rt, param_tol |-> pt, nit |-> ni,
                 pc |-> "start", comm_diag |-> NoInfo,
                 R0 |-> 0, halfspan |-> 0, halfspan_bound |-> FALSE,
                 R_current |-> RS, eps |-> es,
                 history |-> <<>>, brackets |-> <<>>, warnings |-> <<>>,
                 info |-> NoInfo, R_ret |-> 0, error |-> "none"] :
                 vr \in Variants, el \in EdgeLists, es \in EpsStarts,
                 et \in EpsTargets, ef \in EpsFactors, rt \in ResidualTols,
                 pt \in ParamTols, ni \in {3, 8}}
    /\ (drv.variant # "spectral" => drv.nit = 3)
    /\ brent = Idle
    /\ brk = Idle
    /\ jd = Idle
    /\ ow = Idle
    /\ call = Idle
    /\ dash = Idle

\* residual = eps * (norm in units 1/(RS*MU))
Residual(eps, g) == RMul(eps, Rat(g, RS * MU))

\* the guard with a strict comparison: the step at eps = eps_target is lost
LoopGuardStrict(eps, eps_target) == RLt(eps_target, eps)

\* while eps >= eps_target
LoopGuard(eps, eps_target) == RLeq(eps_target, eps)

\* if f_opt <= residual_tol: break
StopTest(residual, residual_tol) == RLeq(residual, residual_tol)

\* a schedule that does not move: eps stays what it is
NextEpsKeep(eps, eps_factor) == eps

\* eps *= eps_factor
NextEps(eps, eps_factor) == RMul(eps, eps_factor)

\* "converged": final["residual"] <= tol_dyn
Converged(residual, tol_dyn) == RLeq(residual, tol_dyn)

\* lines 252-265 of bridge_null_refined (Uploads): regularise, diagnose, scale, centre
RefinedStart(d) ==
    LET st == RegulariseD([heap |-> d.heap, warnings |-> d.warnings], d.edges, 1)
        cd == commutator_diagnostics(st.heap, d.edges)
        h2 == ScaleEdges(st.heap, d.edges)
        ag == aggregate_center_R0(h2, d.edges)
    IN  IF ag.ok
        THEN [d EXCEPT !.heap = h2, !.warnings = st.warnings, !.comm_diag = cd,
                       !.R0 = ag.R0, !.halfspan = ag.halfspan, !.halfspan_bound = TRUE,
                       !.eps = d.eps_start, !.pc = "loop"]
        ELSE [d EXCEPT !.heap = h2, !.warnings = st.warnings, !.comm_diag = cd,
                       !.pc = "raised", !.error = "eigvalsh_of_None"]

\* lines 316-323 of bridge_null_spectral
SpectralStart(d) ==
    LET h1 == ExpRegulariseD(d.heap, d.edges, 1)
        cd == exp_commutator_diagnostics(h1, d.edges)
        ag == exp_aggregate_center_R0(h1, d.edges)
    IN  [d EXCEPT !.heap = h1, !.comm_diag = cd,
                  !.R0 = ag.R0, !.halfspan = ag.halfspan, !.halfspan_bound = TRUE,
                  !.eps = d.eps_start, !.pc = "loop"]

\* lines 162-169 of bridge_null_refined (experiments)
ExpRefinedStart(d) ==
    LET h1 == ExpRegulariseD(d.heap, d.edges, 1)
    IN  [d EXCEPT !.heap = h1, !.comm_diag = exp_commutator_diagnostics(h1, d.edges),
                  !.eps = d.eps_start, !.R_current = RS, !.pc = "loop"]

\* obj = lambda R: cycle_residual_fro(edges, R, eps=eps), or cycle_residual_spec
StepObjective(d) ==
    [kind |-> IF d.variant = "refined" THEN "fro" ELSE "spec",
     heap |-> d.heap, edges |-> d.edges]

\* a, b, c = _adaptive_bracket(obj, R0, halfspan)
StepBracket(d) ==
    IF d.variant = "refined"
    THEN AdaptiveBracket(StepObjective(d), d.R0, d.halfspan)
    ELSE SimpleBracket(StepObjective(d), d.R0, d.halfspan) @@ [exit |-> "none"]

\* R_opt, f_opt, iters = _brent_scalar(obj, a, b, c, param_tol=param_tol,
\* obj_tol=residual_tol * 0.5, min_iter=5); obj_tol is positive, and only its sign is used
StepMinimise(d, bk) ==
    IF d.variant = "refined"
    THEN BrentResult(BrentRun(BrentInit(StepObjective(d), bk.a, bk.b, bk.c, d.param_tol,
                                        1, DriverMaxIter, DriverMinIter)))
    ELSE exp_brent_scalar(StepObjective(d), bk.a, bk.b, bk.c, d.nit, DriverMinIter)

\* the history entry, the stop test and the update of R0 and eps
StepRecord(d, bk, br) ==
    LET res == Residual(d.eps, br.fx)
        d1 == [d EXCEPT !.history = Append(@, [eps |-> d.eps, R |-> br.x,
                                               residual |-> res, iters |-> br.iters,
                                               bound |-> EpsComm(d.eps,
                                                           d.comm_diag.max_ND_comm)]),
                        !.brackets = Append(@, [a |-> bk.a, b |-> bk.b, c |-> bk.c,
                                                exit |-> bk.exit])]
    IN  IF StopTest(res, d.residual_tol)
        THEN [d1 EXCEPT !.pc = "post"]
        ELSE [d1 EXCEPT !.R0 = br.x, !.eps = NextEps(d.eps, d.eps_factor)]

\* the body of the while loop of bridge_null_refined (Uploads) and bridge_null_spectral
ContinuationBody(d) == StepRecord(d, StepBracket(d), StepMinimise(d, StepBracket(d)))

\* lines 286-316 of bridge_null_refined (Uploads), 342-361 of bridge_null_spectral;
\* history[-1] of an empty history raises IndexError
ContinuationResult(d) ==
    IF d.history = <<>>
    THEN [d EXCEPT !.pc = "raised", !.error = "IndexError"]
    ELSE LET mnd == d.comm_diag.max_ND_comm
             alpha_hat == IF d.variant = "refined"
                          THEN alpha_hat_from_history(d.history, mnd)
                          ELSE exp_alpha_hat_from_history(d.history, mnd)
             final == d.history[Len(d.history)]
             floor == DynFloor(alpha_hat, final.eps, mnd)
             tol_dyn == DynTol(d.residual_tol, floor)
             conv == Converged(final.residual, tol_dyn)
             base == [final_eps |-> final.eps, final_R |-> final.R,
                      final_residual |-> final.residual,
                      brent_iters_last |-> final.iters,
                      history |-> d.history,
                      commutator_diagnostics |-> d.comm_diag,
                      converged |-> conv,
                      alpha_hat |-> alpha_hat,
                      dynamic_tol |-> tol_dyn]
         IN  [d EXCEPT !.pc = "done", !.R_ret = final.R,
                       !.info = IF d.variant = "refined"
                                THEN base @@ [note |-> IF conv THEN "converged_to_floor"
                                                       ELSE "bound_above_tolerance"]
                                ELSE base @@ [norm_type |-> "spectral"]]

\* if f_opt < residual_tol: break  (experiments' bridge_null_refined)
ExpStopTest(residual, residual_tol) == RLt(residual, residual_tol)

\* while eps > eps_target  (experiments' bridge_null_refined)
ExpLoopGuard(eps, eps_target) == RLt(eps_target, eps)

\* a, b, c = _adaptive_bracket(obj, R0, halfspan) in the try block
ExpStepBracket(d, R0, halfspan) ==
    SimpleBracket([kind |-> "fro", heap |-> d.heap, edges |-> d.edges], R0, halfspan)

\* R_opt, f_opt, _ = _brent_scalar(obj, a, b, c, param_tol, residual_tol)
ExpStepMinimise(d, bk) ==
    exp_brent_scalar([kind |-> "fro", heap |-> d.heap, edges |-> d.edges],
                     bk.a, bk.b, bk.c, d.nit, DriverMinIter)

\* lines 182-193: the history entry, eps *= eps_factor, and then the stop test
ExpStepRecord(d, ag, bk, br) ==
    LET res == Residual(d.eps, br.fx)
        d1 == [d EXCEPT !.history = Append(@, [eps |-> d.eps, R |-> br.x, residual |-> res,
                                               obj_evaluations |-> 10]),
                        !.brackets = Append(@, [a |-> bk.a, b |-> bk.b, c |-> bk.c,
                                                exit |-> "none"]),
                        !.R0 = ag.R0, !.halfspan = ag.halfspan, !.halfspan_bound = TRUE,
                        !.R_current = br.x,
                        !.eps = NextEps(d.eps, d.eps_factor)]
    IN  IF ExpStopTest(res, d.residual_tol) THEN [d1 EXCEPT !.pc = "post"] ELSE d1

ExpStepFrom(d, ag, bk) == ExpStepRecord(d, ag, bk, ExpStepMinimise(d, bk))

ExpStepAt(d, ag) == ExpStepFrom(d, ag, ExpStepBracket(d, ag.R0, ag.halfspan))

\* lines 171-193 of bridge_null_refined (experiments): the body of the while loop
ExpRefinedBody(d) == ExpStepAt(d, exp_aggregate_center_R0(d.heap, d.edges))

\* lines 199-203: with halfspan bound, bracket and minimise from R_current; a halfspan
\* that was never bound raises NameError inside the try, and the bare except
\* evaluates the objective at R_current
ExpFinalBracket(d) ==
    IF d.halfspan_bound
    THEN ExpStepBracket(d, d.R_current, d.halfspan)
    ELSE [a |-> d.R_current, b |-> d.R_current, c |-> d.R_current]

ExpFinalMinimise(d, bk) ==
    IF d.halfspan_bound
    THEN ExpStepMinimise(d, bk)
    ELSE [x |-> d.R_current,
          fx |-> Obj([kind |-> "fro", heap |-> d.heap, edges |-> d.edges], d.R_current),
          iters |-> 0]

\* lines 214-225: the record; converged is the literal True
ExpRecord(d, eps, hist, R_final) ==
    [history |-> hist, converged |-> TRUE, final_eps |-> eps,
     final_R |-> R_final,
     final_residual |-> IF hist # <<>> THEN hist[Len(hist)].residual
                        ELSE Rat(1, 1000000),
     commutator_diagnostics |-> d.comm_diag,
     alpha_hat |-> exp_alpha_hat_from_history(hist, d.comm_diag.max_ND_comm),
     note |-> "Bridge analysis completed"]

\* lines 196-210: the final optimisation at eps_target, appended to the history
ExpFinalStep(d, bk, br) ==
    LET hist == Append(d.history, [eps |-> d.eps_target, R |-> br.x,
                                   residual |-> Residual(d.eps_target, br.fx),
                                   obj_evaluations |-> 10])
    IN  [d EXCEPT !.pc = "done", !.eps = d.eps_target, !.history = hist, !.R_ret = br.x,
                  !.brackets = IF d.halfspan_bound
                               THEN Append(@, [a |-> bk.a, b |-> bk.b, c |-> bk.c,
                                               exit |-> "none"])
                               ELSE @,
                  !.info = ExpRecord(d, d.eps_target, hist, br.x)]

\* lines 195-225 of bridge_null_refined (experiments): the final optimisation at
\* eps_target if eps <= eps_target, else R_final = R_current; then the result
ExpRefinedResult(d) ==
    IF RLeq(d.eps, d.eps_target)
    THEN ExpFinalStep(d, ExpFinalBracket(d), ExpFinalMinimise(d, ExpFinalBracket(d)))
    ELSE [d EXCEPT !.pc = "done", !.R_ret = d.R_current,
                   !.info = ExpRecord(d, d.eps, d.history, d.R_current)]

\* the statements before the while loop
DriverStart ==
    /\ drv.pc = "start"
    /\ drv' = CASE drv.variant = "refined" -> RefinedStart(drv)
                [] drv.variant = "spectral" -> SpectralStart(drv)
                [] drv.variant = "refined_exp" -> ExpRefinedStart(drv)
    /\ UNCHANGED <<brent, brk, jd, ow, call, dash>>

\* one continuation step: bracket, minimise, record, test
ContinuationStep ==
    /\ drv.pc = "loop"
    /\ drv.variant \in {"refined", "spectral"}
    /\ LoopGuard(drv.eps, drv.eps_target)
    /\ drv' = ContinuationBody(drv)
    /\ UNCHANGED <<brent, brk, jd, ow, call, dash>>

\* the statements after the while loop, up to the return
ContinuationFinish ==
    /\ drv.variant \in {"refined", "spectral"}
    /\ \/ drv.pc = "post"
       \/ drv.pc = "loop" /\ ~LoopGuard(drv.eps, drv.eps_target)
    /\ drv' = ContinuationResult(drv)
    /\ UNCHANGED <<brent, brk, jd, ow, call, dash>>

\* one step of experiments' bridge_null_refined
ExpRefinedStep ==
    /\ drv.pc = "loop"
    /\ drv.variant = "refined_exp"
    /\ ExpLoopGuard(drv.eps, drv.eps_target)
    /\ drv' = ExpRefinedBody(drv)
    /\ UNCHANGED <<brent, brk, jd, ow, call, dash>>

\* the final optimisation and the return of experiments' bridge_null_refined
ExpRefinedFinish ==
    /\ drv.variant = "refined_exp"
    /\ \/ drv.pc = "post"
       \/ drv.pc = "loop" /\ ~ExpLoopGuard(drv.eps, drv.eps_target)
    /\ drv' = ExpRefinedResult(drv)
    /\ UNCHANGED <<brent, brk, jd, ow, call, dash>>

NextDriver ==
    \/ DriverStart
    \/ ContinuationStep
    \/ ContinuationFinish
    \/ ExpRefinedStep
    \/ ExpRefinedFinish

SpecDriver == InitDriver /\ [][NextDriver]_vars

(***************************************************************************)
(* joint_diag (ccc_clock/src/bridge_null_utils.py) on 2x2 real symmetric   *)
(* matrices: one index pair (0, 1) per sweep                               *)
(***************************************************************************)
\* cos and sin of twice the 20 angles of np.linspace(0, np.pi / 2, 20), times TrigScale
TrigScale == 1000

Cos2 == <<1000, 986, 946, 879, 789, 677, 547, 402, 245, 83,
          -83, -245, -402, -547, -677, -789, -879, -946, -986, -1000>>

Sin2 == <<0, 165, 325, 476, 614, 736, 837, 916, 969, 997,
          997, 969, 916, 837, 736, 614, 476, 325, 165, 0>>

NumAngles == 20

\* G.conj().T @ A @ G for the k-th angle
Rotate(A, k) ==
    LET s == A[1] + A[3]
        t == A[1] - A[3]
    IN  <<RDiv(TrigScale * s + t * Cos2[k] + 2 * A[2] * Sin2[k], 2 * TrigScale),
          RDiv(2 * A[2] * Cos2[k] - t * Sin2[k], 2 * TrigScale),
          RDiv(TrigScale * s - t * Cos2[k] - 2 * A[2] * Sin2[k], 2 * TrigScale)>>

\* off_diagonal_norm_squared, and the 2x2 contribution |A01|^2 + |A10|^2
OffDiag(A) == 2 * A[2] * A[2]

\* lines 131-153: the angle with the least off-diagonal energy, first one on ties
RECURSIVE AngleSearch(_, _, _, _)
AngleSearch(N, D, k, best) ==
    IF k > NumAngles THEN best
    ELSE LET new_off == OffDiag(Rotate(N, k)) + OffDiag(Rotate(D, k))
         IN  IF new_off < best.off
             THEN AngleSearch(N, D, k + 1, [angle |-> k, off |-> new_off])
             ELSE AngleSearch(N, D, k + 1, best)

JointDiagInit(N, D, tol2, max_iter) ==
    [N_work |-> N, D_work |-> D, tol2 |-> tol2, max_iter |-> max_iter,
     iteration |-> 0, sweeps |-> 0, max_improvement |-> 0,
     initial_total |-> OffDiag(N) + OffDiag(D),
     history |-> <<>>, info |-> NoInfo,
     pc |-> IF max_iter = 0 THEN "raise" ELSE "loop"]

\* a rotation applied whatever it gains
ApplyRotationAlways(improvement, tol2) == TRUE

\* if improvement > tol**2: the best rotation is applied
ApplyRotation(improvement, tol2) == improvement > tol2

\* lines 102-196: one pass of the for loop, a sweep and the convergence check
JointDiagSweep(s) ==
    LET current_off == OffDiag(s.N_work) + OffDiag(s.D_work)
        skip == current_off < s.tol2
        best == AngleSearch(s.N_work, s.D_work, 1, [angle |-> 1, off |-> current_off])
        improvement == current_off - best.off
        max_improvement == IF ~skip /\ improvement > 0 THEN improvement ELSE 0
        apply == ~skip /\ ApplyRotation(improvement, s.tol2)
        Nw == IF apply THEN Rotate(s.N_work, best.angle) ELSE s.N_work
        Dw == IF apply THEN Rotate(s.D_work, best.angle) ELSE s.D_work
        t == [s EXCEPT !.N_work = Nw, !.D_work = Dw,
                       !.max_improvement = max_improvement,
                       !.sweeps = s.sweeps + 1,
                       !.history = Append(@, [iteration |-> s.iteration,
                                              total_off_diag |-> OffDiag(Nw) + OffDiag(Dw),
                                              max_improvement |-> max_improvement])]
    IN  IF max_improvement < s.tol2 \/ s.iteration + 1 >= s.max_iter
        THEN [t EXCEPT !.pc = "ret"]
        ELSE [t EXCEPT !.iteration = s.iteration + 1]

\* lines 198-217: the info record
JointDiagResult(s) ==
    [s EXCEPT !.pc = "done",
              !.info = [converged |-> s.max_improvement < s.tol2,
                        iterations |-> s.iteration + 1,
                        initial_off_diag |-> s.initial_total,
                        final_off_diag |-> OffDiag(s.N_work) + OffDiag(s.D_work),
                        history |-> s.history]]

\* bounds and inputs of the stand-alone runs
JMaxIter == 3

JMatrices == {<<10, 0, 4>>, <<10, 6, 4>>, <<3, 8, 3>>, <<0, 5, 20>>, <<7, -9, 1>>}

InitJointDiag ==
    /\ jd \in {JointDiagInit(N, D, t2, mx) :
                 N \in JMatrices, D \in JMatrices, t2 \in {0, 1, 40},
                 mx \in 0..JMaxIter}
    /\ brent = Idle
    /\ brk = Idle
    /\ drv = Idle
    /\ ow = Idle
    /\ call = Idle
    /\ dash = Idle

\* one sweep of joint_diag
JDSweep ==
    /\ jd.pc = "loop"
    /\ jd' = JointDiagSweep(jd)
    /\ UNCHANGED <<brent, brk, drv, ow, call, dash>>

\* return S, info
JDReturn ==
    /\ jd.pc = "ret"
    /\ jd' = JointDiagResult(jd)
    /\ UNCHANGED <<brent, brk, drv, ow, call, dash>>

(***************************************************************************)
(* optimize_weights (src/analysis/experiments_bridge_null.py)              *)
(* A weight vector is [v |-> integers, d |-> integer > 0], the vector v/d, *)
(* exact.  The probe h = 1e-6 of the finite difference is 1/WS, and a step *)
(* alpha * grad[i] is rounded to a multiple of 1/WS.                       *)
(***************************************************************************)
WS == 8

\* sum of w[i] * edges[i].N and of w[i] * edges[i].D
RECURSIVE WeightedSum(_, _, _, _, _)
WeightedSum(heap, edges, w, i, useN) ==
    IF i > Len(edges) THEN MZero
    ELSE LET M == IF useN THEN heap[edges[i]].N ELSE heap[edges[i]].D
         IN  MAdd(<<w[i] * M[1], w[i] * M[2], w[i] * M[3]>>,
                  WeightedSum(heap, edges, w, i + 1, useN))

\* aggregate_edge(edges, weights)
aggregate_edge(heap, edges, w) ==
    [N |-> MScale(WeightedSum(heap, edges, w.v, 1, TRUE), 1, w.d),
     D |-> MScale(WeightedSum(heap, edges, w.v, 1, FALSE), 1, w.d),
     Dtiny |-> 0]

\* R_opt, f_opt, _ = _brent_scalar(obj, a, b, c, param_tol=1e-7, obj_tol=1e-12)
MinimiseIn(fd, bk) == exp_brent_scalar(fd, bk.a, bk.b, bk.c, 0, DriverMinIter).fx

\* R0, halfspan = aggregate_center_R0([agg_edge]); a, b, c = _adaptive_bracket(obj, R0, halfspan)
AggregateResidual(fd) ==
    MinimiseIn(fd, SimpleBracket(fd, exp_aggregate_center_R0(fd.heap, fd.edges).R0,
                                 exp_aggregate_center_R0(fd.heap, fd.edges).halfspan))

\* residual_func(weights): f_opt of the aggregate edge, without the factor eps
residual_func(heap, edges, w) ==
    AggregateResidual([kind |-> "fro",
                       heap |-> [i \in {1} |-> aggregate_edge(heap, edges, w)],
                       edges |-> <<1>>])

RECURSIVE SeqSum(_, _)
SeqSum(w, i) == IF i > Len(w) THEN 0 ELSE w[i] + SeqSum(w, i + 1)

RECURSIVE SeqGcd(_, _)
SeqGcd(w, i) == IF i > Len(w) THEN 0 ELSE Gcd(w[i], SeqGcd(w, i + 1))

\* the vector c / t with c >= 0 and t = sum(c) > 0, in lowest terms
Normalised(c, t) ==
    [v |-> [i \in 1..Len(c) |-> c[i] \div SeqGcd(c, 1)], d |-> t \div SeqGcd(c, 1)]

\* project_simplex without the test of the sum: w / np.sum(w) also when the sum is 0,
\* where numpy yields nan for every entry
project_simplex_nofallback(x) ==
    LET c == [i \in 1..Len(x.v) |-> Max2(x.v[i], 0)]
        t == SeqSum(c, 1)
    IN  IF t = 0 THEN [v |-> [i \in 1..Len(x.v) |-> 0], d |-> 0, nan |-> TRUE]
        ELSE Normalised(c, t)

\* project_simplex: w = np.maximum(w, 0); the uniform vector if np.sum(w) == 0,
\* w / np.sum(w) otherwise
project_simplex(x) ==
    LET c == [i \in 1..Len(x.v) |-> Max2(x.v[i], 0)]
        t == SeqSum(c, 1)
    IN  IF t = 0 THEN [v |-> [i \in 1..Len(x.v) |-> 1], d |-> Len(x.v)]
        ELSE Normalised(c, t)

\* w with h * sgn added to entry i, h = 1/WS
Probe(w, i, sgn) ==
    [v |-> [j \in 1..Len(w.v) |-> IF j = i THEN w.v[j] * WS + sgn * w.d ELSE w.v[j] * WS],
     d |-> w.d * WS]

\* grad[i] = (residual_plus - residual_minus) / (2 * h), then alpha * grad[i] with
\* alpha = step_size / (1 + 0.001 * iteration), in units 1/WS
GradStep(s, i) ==
    LET w_plus  == project_simplex(Probe(s.w, i, 1))
        w_minus == project_simplex(Probe(s.w, i, -1))
        dr == residual_func(s.heap, s.edges, w_plus) - residual_func(s.heap, s.edges, w_minus)
        cf == RMul(RMul(s.step_size, s.eps),
                   Rat(1000 * WS * WS, (1000 + s.iteration) * 2 * RS * MU))
    IN  RDiv(cf.n * dr, cf.d)

\* w - alpha * grad
Descend(s) ==
    [v |-> [i \in 1..Len(s.w.v) |-> s.w.v[i] * WS - s.w.d * GradStep(s, i)],
     d |-> s.w.d * WS]

\* the square of np.linalg.norm(u - w), times (u.d * w.d)^2
RECURSIVE SumSqDiff(_, _, _)
SumSqDiff(u, w, i) ==
    IF i > Len(u.v) THEN 0
    ELSE (u.v[i] * w.d - w.v[i] * u.d) * (u.v[i] * w.d - w.v[i] * u.d)
         + SumSqDiff(u, w, i + 1)

\* np.linalg.norm(w_new - w) < tol, tol in units 1/WS
StepBelowTol(w_new, w, tol) ==
    WS * WS * SumSqDiff(w_new, w, 1) < tol * tol * (w_new.d * w.d) * (w_new.d * w.d)

Uniform(m) == [v |-> [i \in 1..m |-> 1], d |-> m]

OptWInit(heap, edges, eps, max_iter, step_size, tol) ==
    [heap |-> heap, edges |-> edges, eps |-> eps, max_iter |-> max_iter,
     step_size |-> step_size, tol |-> tol,
     w |-> Uniform(Len(edges)),
     best_weights |-> Uniform(Len(edges)),
     best_residual |-> [inf |-> TRUE, g |-> 0],
     iteration |-> 0, evaluated |-> <<>>,
     pc |-> IF max_iter = 0 THEN "ret" ELSE "loop"]

\* OptWUpdate without the comparison of line 435: the latest iterate is kept as the best
OptWUpdateLatest(s, current_residual, w_new) ==
    LET t == [s EXCEPT !.best_residual = [inf |-> FALSE, g |-> current_residual],
                       !.best_weights = s.w,
                       !.evaluated = Append(@, [w |-> s.w, g |-> current_residual])]
    IN  IF StepBelowTol(w_new, s.w, s.tol)
        THEN [t EXCEPT !.pc = "ret"]
        ELSE IF s.iteration + 1 >= s.max_iter
             THEN [t EXCEPT !.w = w_new, !.pc = "ret"]
             ELSE [t EXCEPT !.w = w_new, !.iteration = s.iteration + 1]

\* lines 435-437 and 464-469: the best iterate so far, the convergence test, w = w_new
OptWUpdate(s, current_residual, w_new) ==
    LET better == s.best_residual.inf \/ current_residual < s.best_residual.g
        t == [s EXCEPT !.best_residual = IF better THEN [inf |-> FALSE, g |-> current_residual]
                                         ELSE @,
                       !.best_weights = IF better THEN s.w ELSE @,
                       !.evaluated = Append(@, [w |-> s.w, g |-> current_residual])]
    IN  IF StepBelowTol(w_new, s.w, s.tol)
        THEN [t EXCEPT !.pc = "ret"]
        ELSE IF s.iteration + 1 >= s.max_iter
             THEN [t EXCEPT !.w = w_new, !.pc = "ret"]
             ELSE [t EXCEPT !.w = w_new, !.iteration = s.iteration + 1]

\* lines 431-471: one pass of the for loop
OptWIterate(s) ==
    OptWUpdate(s, residual_func(s.heap, s.edges, s.w), project_simplex(Descend(s)))

\* bounds and inputs of the stand-alone runs
OMaxIter == 3

InitOptW ==
    /\ ow \in {OptWInit(EdgeHeap, el, e, mx, st, tl) :
                 el \in {<<4, 5>>, <<2, 6>>, <<7, 1>>, <<1, 3>>, <<6, 1>>, <<4, 7>>},
                 e \in {Rat(1, 1000), Rat(1, 1)},
                 mx \in 0..OMaxIter,
                 st \in {Rat(1, 100), Rat(1, 1), Rat(16, 1)},
                 tl \in {0, 1, 2}}
    /\ brent = Idle
    /\ brk = Idle
    /\ drv = Idle
    /\ jd = Idle
    /\ call = Idle
    /\ dash = Idle

\* one iteration of optimize_weights
OptWIter ==
    /\ ow.pc = "loop"
    /\ ow' = OptWIterate(ow)
    /\ UNCHANGED <<brent, brk, drv, jd, call, dash>>

\* return best_weights, best_residual
OptWReturn ==
    /\ ow.pc = "ret"
    /\ ow' = [ow EXCEPT !.pc = "done"]
    /\ UNCHANGED <<brent, brk, drv, jd, call, dash>>

(***************************************************************************)
(* The three iterative searches with an iteration ceiling                  *)
(***************************************************************************)
InitSearch == InitBrent \/ InitJointDiag \/ InitOptW

NextSearch ==
    \/ BrentIter
    \/ BrentReturn
    \/ JDSweep
    \/ JDReturn
    \/ OptWIter
    \/ OptWReturn

SpecSearch == InitSearch /\ [][NextSearch]_vars

(***************************************************************************)
(* Stand-alone calls of the helpers                                        *)
(***************************************************************************)
\* an array: its shape (r, c) and its entries in row order, each <<re, im>>
Entry(A, i, j) == A.v[(i - 1) * A.c + j]

Shape(A) == <<A.r, A.c>>

Conj(z) == <<z[1], -z[2]>>

Mod2(z) == z[1] * z[1] + z[2] * z[2]

\* np.allclose keeps its default rtol = 1e-5
RTolDen == 100000

\* |x - y| <= atol + rtol * |y| on one pair of entries; atol = 1e-12 is below
\* 1/RTolDen of the unit, and the test is taken on the squared moduli
CloseEntry(x, y) ==
    Mod2(<<x[1] - y[1], x[2] - y[2]>>) <= (Mod2(y) \div RTolDen) \div RTolDen

\* np.allclose(A, A.conj().T, atol=1e-12) for a square A
IsHermitian(A) ==
    \A i \in 1..A.r : \A j \in 1..A.c : CloseEntry(Entry(A, i, j), Conj(Entry(A, j, i)))

\* BridgeEdge.check of Uploads/bridge_null.py: the first failing line decides
UploadsCheck(N, D) ==
    IF Shape(N) # Shape(D) THEN "AssertionError"
    ELSE IF N.r # N.c THEN "AssertionError"
    ELSE IF ~IsHermitian(N) THEN "ValueError_N_must_be_Hermitian"
    ELSE IF ~IsHermitian(D) THEN "ValueError_D_must_be_Hermitian"
    ELSE "none"

\* BridgeEdge(N, D) of the three classes: np.asarray of both arguments, and check()
\* in the class of Uploads/bridge_null.py only
BridgeEdgeInit(class, N, D) ==
    LET err == IF class = "Uploads" THEN UploadsCheck(N, D) ELSE "none"
    IN  IF err = "none"
        THEN [op |-> "BridgeEdge", class |-> class, argN |-> N, argD |-> D,
              pc |-> "done", N |-> N, D |-> D, error |-> "none"]
        ELSE [op |-> "BridgeEdge", class |-> class, argN |-> N, argD |-> D,
              pc |-> "raised", error |-> err]

EdgeClasses == {"Uploads", "experiments", "bridge_ccc"}

Re(x) == <<x, 0>>

Im(x) == <<0, x>>

\* identity, complex Hermitian, complex symmetric, real non-symmetric, 1 x 2, 2 x 1,
\* 1 x 1 real, 1 x 1 imaginary
TestArrays ==
    {[r |-> 2, c |-> 2, v |-> <<Re(1), Re(0), Re(0), Re(1)>>],
     [r |-> 2, c |-> 2, v |-> <<Re(1), Im(1), Im(-1), Re(2)>>],
     [r |-> 2, c |-> 2, v |-> <<Re(1), Im(1), Im(1), Re(1)>>],
     [r |-> 2, c |-> 2, v |-> <<Re(1), Re(2), Re(0), Re(1)>>],
     [r |-> 1, c |-> 2, v |-> <<Re(1), Re(0)>>],
     [r |-> 2, c |-> 1, v |-> <<Re(1), Re(0)>>],
     [r |-> 1, c |-> 1, v |-> <<Re(2)>>],
     [r |-> 1, c |-> 1, v |-> <<Im(1)>>]}

InitEdge ==
    /\ call \in {[op |-> "BridgeEdge", class |-> cl, argN |-> N, argD |-> D,
                  pc |-> "call", error |-> "none"] :
                  cl \in EdgeClasses, N \in TestArrays, D \in TestArrays}
    /\ brent = Idle
    /\ brk = Idle
    /\ drv = Idle
    /\ jd = Idle
    /\ ow = Idle
    /\ dash = Idle

EdgeConstruct ==
    /\ call.pc = "call"
    /\ call.op = "BridgeEdge"
    /\ call' = BridgeEdgeInit(call.class, call.argN, call.argD)
    /\ UNCHANGED <<brent, brk, drv, jd, ow, dash>>

\* edges for _regularise_D: D positive-definite, zero, singular, indefinite,
\* negative-definite
RegHeap ==
    <<[N |-> <<4, 0, 4>>, D |-> <<4, 0, 8>>, Dtiny |-> 0],
      [N |-> <<4, 0, 4>>, D |-> <<0, 0, 0>>, Dtiny |-> 0],
      [N |-> <<4, 0, 4>>, D |-> <<4, 0, 0>>, Dtiny |-> 0],
      [N |-> <<4, 0, 4>>, D |-> <<-4, 0, 4>>, Dtiny |-> 0],
      [N |-> <<4, 0, 4>>, D |-> <<-4, 4, -8>>, Dtiny |-> 0]>>

RegLists == {<<>>} \cup {<<i>> : i \in 1..5} \cup {<<i, j>> : i \in 1..5, j \in 1..5}

InitRegularise ==
    /\ call \in {[op |-> "_regularise_D", class |-> cl, heap |-> RegHeap, edges |-> el,
                  pc |-> "call", warnings |-> <<>>] :
                  cl \in {"Uploads", "experiments"}, el \in RegLists}
    /\ brent = Idle
    /\ brk = Idle
    /\ drv = Idle
    /\ jd = Idle
    /\ ow = Idle
    /\ dash = Idle

\* _regularise_D(edges) of Uploads/bridge_null.py and of experiments_bridge_null.py
RegulariseCall ==
    /\ call.pc = "call"
    /\ call.op = "_regularise_D"
    /\ call' = IF call.class = "Uploads"
               THEN LET st == RegulariseD([heap |-> call.heap, warnings |-> <<>>],
                                          call.edges, 1)
                    IN  [call EXCEPT !.pc = "done", !.heap = st.heap,
                                     !.warnings = st.warnings]
               ELSE [call EXCEPT !.pc = "done",
                                 !.heap = ExpRegulariseD(call.heap, call.edges, 1)]
    /\ UNCHANGED <<brent, brk, drv, jd, ow, dash>>

\* is_effectively_commuting(comm_diag, atol) of Uploads/bridge_null.py with its atol
\* written out
is_effectively_commuting_at(cd, atol) ==
    cd.max_NN_comm < atol /\ cd.max_DD_comm < atol /\ cd.max_ND_comm < atol

\* the maxima handed to _classify_commutator_structure are in units of 1e-13, in
\* which the threshold 1e-12 is ClsAtol
ClsAtol == 10

ClsFactor == 10

\* max_X > 10 * max(the other two)
Dominates(cd, X) ==
    CASE X = "ND" -> cd.max_ND_comm > ClsFactor * Max2(cd.max_NN_comm, cd.max_DD_comm)
      [] X = "NN" -> cd.max_NN_comm > ClsFactor * Max2(cd.max_DD_comm, cd.max_ND_comm)
      [] X = "DD" -> cd.max_DD_comm > ClsFactor * Max2(cd.max_NN_comm, cd.max_ND_comm)

DominatedLabel(X) ==
    CASE X = "ND" -> "ND_dominated"
      [] X = "NN" -> "NN_dominated"
      [] X = "DD" -> "DD_dominated"

\* the elif chain of _classify_commutator_structure with the comparison >= in place
\* of >
classify_commutator_structure_geq(cd) ==
    IF Max2(Max2(cd.max_NN_comm, cd.max_DD_comm), cd.max_ND_comm) < ClsAtol
    THEN "effectively_commuting"
    ELSE IF cd.max_ND_comm >= ClsFactor * Max2(cd.max_NN_comm, cd.max_DD_comm)
    THEN "ND_dominated"
    ELSE IF cd.max_NN_comm >= ClsFactor * Max2(cd.max_DD_comm, cd.max_ND_comm)
    THEN "NN_dominated"
    ELSE IF cd.max_DD_comm >= ClsFactor * Max2(cd.max_NN_comm, cd.max_ND_comm)
    THEN "DD_dominated"
    ELSE "mixed_structure"

\* _classify_commutator_structure: the first test of the chain that holds decides
classify_commutator_structure(cd) ==
    IF Max2(Max2(cd.max_NN_comm, cd.max_DD_comm), cd.max_ND_comm) < ClsAtol
    THEN "effectively_commuting"
    ELSE IF Dominates(cd, "ND") THEN DominatedLabel("ND")
    ELSE IF Dominates(cd, "NN") THEN DominatedLabel("NN")
    ELSE IF Dominates(cd, "DD") THEN DominatedLabel("DD")
    ELSE "mixed_structure"

ClsValues == {0, 1, 9, 10, 11, 100, 101, 110, 111}

InitClassify ==
    /\ call \in {[op |-> "_classify_commutator_structure",
                  comm_diag |-> [max_NN_comm |-> nn, max_DD_comm |-> dd,
                                 max_ND_comm |-> nd],
                  pc |-> "call", label |-> "none"] :
                  nn \in ClsValues, dd \in ClsValues, nd \in ClsValues}
    /\ brent = Idle
    /\ brk = Idle
    /\ drv = Idle
    /\ jd = Idle
    /\ ow = Idle
    /\ dash = Idle

ClassifyCall ==
    /\ call.pc = "call"
    /\ call.op = "_classify_commutator_structure"
    /\ call' = [call EXCEPT !.pc = "done",
                            !.label = classify_commutator_structure(call.comm_diag)]
    /\ UNCHANGED <<brent, brk, drv, jd, ow, dash>>

\* A product of the factors Ue = _expm(-eps * B_e) is kept as the sequence of the list
\* positions of its factors, leftmost factor first; X @ Y is then X \o Y.
\* U @ Ue: the new factor on the right of the running product
CycleFactorRight(Ue, U) == U \o Ue

\* Ue @ U
CycleFactor(Ue, U) == Ue \o U

ResidualLists == EdgeLists \cup {<<4, 6, 1>>, <<1, 6, 4>>, <<6, 6, 7>>}

ResidualRs == {0, RS \div 2, RS}

InitResidual ==
    /\ call \in {[op |-> "cycle_residual", norm |-> nm, heap |-> EdgeHeap, edges |-> el,
                  R |-> R, i |-> 1, U_is_None |-> TRUE, U |-> <<>>,
                  pc |-> "loop", ret |-> 0] :
                  nm \in {"fro", "spec"}, el \in ResidualLists, R \in ResidualRs}
    /\ brent = Idle
    /\ brk = Idle
    /\ drv = Idle
    /\ jd = Idle
    /\ ow = Idle
    /\ dash = Idle

\* one pass of "for e in edges": U = Ue if U is None else (Ue @ U)
ResidualFactor ==
    /\ call.pc = "loop"
    /\ call.op = "cycle_residual"
    /\ call.i <= Len(call.edges)
    /\ call' = [call EXCEPT !.U = IF call.U_is_None THEN <<call.i>>
                                  ELSE CycleFactor(<<call.i>>, call.U),
                            !.U_is_None = FALSE,
                            !.i = @ + 1]
    /\ UNCHANGED <<brent, brk, drv, jd, ow, dash>>

\* if U is None: return 0.0; otherwise the norm of U - I, 'fro' in cycle_residual_fro
\* and 2 in cycle_residual_spec, in units eps/(RS*MU)
ResidualReturn ==
    /\ call.pc = "loop"
    /\ call.op = "cycle_residual"
    /\ call.i > Len(call.edges)
    /\ call' = [call EXCEPT !.pc = "done",
                            !.ret = IF call.U_is_None THEN 0
                                    ELSE IF call.norm = "fro"
                                    THEN NormFro(CycleB(call.heap, call.edges, call.R))
                                    ELSE Norm2(CycleB(call.heap, call.edges, call.R))]
    /\ UNCHANGED <<brent, brk, drv, jd, ow, dash>>

\* vectors handed to project_simplex: lengths 1 to 3, entries of either sign
ProjEntries == {-2, -1, 0, 1, 3}

ProjVectors ==
    {<<x>> : x \in ProjEntries}
    \cup {<<x, y>> : x \in ProjEntries, y \in ProjEntries}
    \cup {<<x, y, z>> : x \in ProjEntries, y \in ProjEntries, z \in ProjEntries}

InitProject ==
    /\ call \in {[op |-> "project_simplex", arg |-> [v |-> v, d |-> d],
                  pc |-> "call", out |-> Uniform(1), again |-> Uniform(1)] :
                  v \in ProjVectors, d \in {1, 4}}
    /\ brent = Idle
    /\ brk = Idle
    /\ drv = Idle
    /\ jd = Idle
    /\ ow = Idle
    /\ dash = Idle

\* project_simplex(w)
ProjectCall ==
    /\ call.pc = "call"
    /\ call.op = "project_simplex"
    /\ call' = [call EXCEPT !.pc = "projected", !.out = project_simplex(call.arg)]
    /\ UNCHANGED <<brent, brk, drv, jd, ow, dash>>

\* project_simplex applied to the vector it returned
ProjectAgain ==
    /\ call.pc = "projected"
    /\ call.op = "project_simplex"
    /\ call' = [call EXCEPT !.pc = "done", !.again = project_simplex(call.out)]
    /\ UNCHANGED <<brent, brk, drv, jd, ow, dash>>

\* np.random.randn() in tenths: a draw z stands for the value z / 10
RandnDraws == {-90, -80, -40, -20, -19, -10, 0, 10, 19, 20, 40, 80, 90}

\* the simulated test signal of execute_orthogonality_tests, as the fraction n/d of
\* exact value: -s * (1 + 0.1 z), s * 0.05 * (1 + 0.5 z), s * 2.0 * (1 + 0.2 z)
SignalTest(name, s, z) ==
    CASE name = "loop_reversal" -> [n |-> -s * (100 + z), d |-> 100]
      [] name = "commuting_loop" -> [n |-> s * (20 + z), d |-> 400]
      [] name = "entanglement_visibility" -> [n |-> s * (50 + z), d |-> 25]

\* _loop_reversal_test: sign_flip and abs(ratio + 1) < 0.2, ratio 0 for a zero signal
loop_reversal_test(s, t) ==
    /\ Sign(s) # Sign(t.n)
    /\ IF s # 0 THEN 5 * Abs(t.n + s * t.d) < Abs(s) * t.d ELSE FALSE

\* _commuting_loop_test: suppression < 0.15, suppression 1 for a zero signal
commuting_loop_test(s, t) ==
    IF s # 0 THEN 100 * Abs(t.n) < 15 * Abs(s) * t.d ELSE FALSE

\* _entanglement_test: enhancement > 1.2, enhancement 1 for a zero signal
entanglement_test(s, t) ==
    IF s # 0 THEN 100 * Abs(t.n) > 120 * Abs(s) * t.d ELSE FALSE

OrthoSignals == {-3, -1, 0, 1, 2}

InitOrtho ==
    /\ call \in {[op |-> "execute_orthogonality_tests", ccc_signal_normal |-> s,
                  pc |-> "call", draws |-> <<>>, test_results |-> <<>>] :
                  s \in OrthoSignals}
    /\ brent = Idle
    /\ brk = Idle
    /\ drv = Idle
    /\ jd = Idle
    /\ ow = Idle
    /\ dash = Idle

\* execute_orthogonality_tests: the three standard tests in the order of the list,
\* each on a test signal with its own random draw
ExecuteOrthogonalityTests ==
    /\ call.pc = "call"
    /\ call.op = "execute_orthogonality_tests"
    /\ \E z1 \in RandnDraws, z2 \in RandnDraws, z3 \in RandnDraws :
          LET s == call.ccc_signal_normal
          IN  call' = [call EXCEPT
                  !.pc = "done",
                  !.draws = <<z1, z2, z3>>,
                  !.test_results =
                      <<[name |-> "loop_reversal",
                         passed |-> loop_reversal_test(s, SignalTest("loop_reversal", s, z1))],
                        [name |-> "commuting_loop",
                         passed |-> commuting_loop_test(s, SignalTest("commuting_loop", s, z2))],
                        [name |-> "entanglement_visibility",
                         passed |-> entanglement_test(
                                        s, SignalTest("entanglement_visibility", s, z3))]>>]
    /\ UNCHANGED <<brent, brk, drv, jd, ow, dash>>

InitCalls ==
    InitEdge \/ InitRegularise \/ InitClassify \/ InitResidual \/ InitProject \/ InitOrtho

NextCalls ==
    \/ EdgeConstruct
    \/ RegulariseCall
    \/ ClassifyCall
    \/ ResidualFactor
    \/ ResidualReturn
    \/ ProjectCall
    \/ ProjectAgain
    \/ ExecuteOrthogonalityTests

SpecCalls == InitCalls /\ [][NextCalls]_vars

(***************************************************************************)
(* The live dashboard (ccc_clock/dashboard.py, web/dashboard.py): the      *)
(* thread of update_data_buffer and the callback update_plots share        *)
(* data_buffer; an append and a list(...) of a deque are single steps      *)
(***************************************************************************)
\* the keys of data_buffer in the order in which update_data_buffer appends
Series ==
    <<"timestamps", "snr", "parity_ratio", "lo_amplitude", "polarization", "b_field",
      "temperature">>

\* deque(maxlen=...): the length the series are bounded to
BufMaxLen == 2

\* the samples generate_mock_data delivers in a run
MaxSamples == 3

\* deque.append with maxlen: the oldest entry leaves a full deque
DequeAppend(q, x) == IF Len(q) >= BufMaxLen THEN Tail(q) \o <<x>> ELSE q \o <<x>>

\* a sample is known by its number n: its timestamp and its six values are all n
InitDashboard ==
    /\ dash = [data_buffer |-> [k \in {Series[i] : i \in 1..Len(Series)} |-> <<>>],
               n |-> 0, wpc |-> 0,
               rpc |-> "wait", timestamps |-> <<>>, indices |-> <<>>,
               filtered |-> <<>>, rs |-> 2, ri |-> 1, result |-> "none"]
    /\ brent = Idle
    /\ brk = Idle
    /\ drv = Idle
    /\ jd = Idle
    /\ ow = Idle
    /\ call = Idle

\* data = generate_mock_data()
GenerateMockData ==
    /\ dash.wpc = 0
    /\ dash.n < MaxSamples
    /\ dash' = [dash EXCEPT !.n = @ + 1, !.wpc = 1]
    /\ UNCHANGED <<brent, brk, drv, jd, ow, call>>

\* data_buffer[key].append(data[key]), one key after another; then time.sleep(1)
AppendSeries ==
    /\ dash.wpc \in 1..Len(Series)
    /\ dash' = [dash EXCEPT !.data_buffer[Series[dash.wpc]] = DequeAppend(@, dash.n),
                            !.wpc = IF dash.wpc = Len(Series) THEN 0 ELSE @ + 1]
    /\ UNCHANGED <<brent, brk, drv, jd, ow, call>>

\* the interval fires and update_plots is called
UpdatePlotsEnter ==
    /\ dash.rpc \in {"wait", "returned", "raised"}
    /\ dash' = [dash EXCEPT !.rpc = "check", !.timestamps = <<>>, !.indices = <<>>,
                            !.filtered = <<>>, !.rs = 2, !.ri = 1, !.result = "none"]
    /\ UNCHANGED <<brent, brk, drv, jd, ow, call>>

\* if len(data_buffer["timestamps"]) == 0: return the empty figures
UpdatePlotsCheck ==
    /\ dash.rpc = "check"
    /\ dash' = IF Len(dash.data_buffer["timestamps"]) = 0
               THEN [dash EXCEPT !.rpc = "returned", !.result = "waiting"]
               ELSE [dash EXCEPT !.rpc = "snapshot"]
    /\ UNCHANGED <<brent, brk, drv, jd, ow, call>>

\* indices = [i for i, t in enumerate(timestamps) if t >= cutoff_time], 1-based
IndicesFrom(timestamps, cutoff) ==
    SelectSeq([i \in 1..Len(timestamps) |-> i], LAMBDA i : timestamps[i] >= cutoff)

\* timestamps = list(data_buffer["timestamps"]), the indices inside the time window,
\* the return if there are none, filtered_times = [timestamps[i] for i in indices]
UpdatePlotsSnapshot ==
    /\ dash.rpc = "snapshot"
    /\ \E cutoff \in 1..(MaxSamples + 1) :
          LET ts == dash.data_buffer["timestamps"]
              ix == IndicesFrom(ts, cutoff)
          IN  dash' = IF ix = <<>>
                      THEN [dash EXCEPT !.timestamps = ts, !.rpc = "returned",
                                        !.result = "no_data"]
                      ELSE [dash EXCEPT !.timestamps = ts, !.indices = ix,
                                        !.filtered = <<[i \in 1..Len(ix) |-> ts[ix[i]]]>>,
                                        !.rpc = "read", !.rs = 2, !.ri = 1]
    /\ UNCHANGED <<brent, brk, drv, jd, ow, call>>

\* the filtered lists after one more element was read: a new list is begun at ri = 1
FilteredWith(filtered, ri, x) ==
    IF ri = 1 THEN Append(filtered, <<x>>)
    ELSE [filtered EXCEPT ![Len(filtered)] = Append(@, x)]

\* one element of [list(data_buffer[key])[i] for i in indices]: a new list of the deque
\* is made for every i, and an i beyond its end raises IndexError
UpdatePlotsRead ==
    /\ dash.rpc = "read"
    /\ LET now == dash.data_buffer[Series[dash.rs]]
           i == dash.indices[dash.ri]
       IN  dash' =
             IF i > Len(now)
             THEN [dash EXCEPT !.rpc = "raised", !.result = "IndexError"]
             ELSE IF dash.ri < Len(dash.indices)
                  THEN [dash EXCEPT !.filtered = FilteredWith(@, dash.ri, now[i]),
                                    !.ri = @ + 1]
                  ELSE IF dash.rs < Len(Series)
                       THEN [dash EXCEPT !.filtered = FilteredWith(@, dash.ri, now[i]),
                                         !.rs = @ + 1, !.ri = 1]
                       ELSE [dash EXCEPT !.filtered = FilteredWith(@, dash.ri, now[i]),
                                         !.rpc = "returned", !.result = "plots"]
    /\ UNCHANGED <<brent, brk, drv, jd, ow, call>>

NextDashboard ==
    \/ GenerateMockData
    \/ AppendSeries
    \/ UpdatePlotsEnter
    \/ UpdatePlotsCheck
    \/ UpdatePlotsSnapshot
    \/ UpdatePlotsRead

SpecDashboard == InitDashboard /\ [][NextDashboard]_vars

(***************************************************************************)
(* Properties                                                              *)
(***************************************************************************)
RECURSIVE RPow(_, _)
RPow(q, k) == IF k = 0 THEN RInt(1) ELSE RMul(q, RPow(q, k - 1))

\* eps_start * eps_factor^k
EpsAt(k) == RMul(drv.eps_start, RPow(drv.eps_factor, k))

Terminal == drv.pc \in {"done", "raised"}

UploadsLoop == drv.pc # "idle" /\ drv.variant \in {"refined", "spectral"}

\* the while loop was entered and has been left
LoopEnded == drv.pc = "done" \/ (drv.pc = "raised" /\ drv.error = "IndexError")

\* C1: in bridge_null_refined (Uploads) and bridge_null_spectral started with
\* eps_start >= eps_target, the k-th history entry has eps = eps_start * eps_factor^k,
\* the recorded eps strictly decrease and lie in [eps_target, eps_start], and once the
\* loop has ended a step was run at eps_start * eps_factor^k exactly when that eps
\* is >= eps_target and no earlier step met residual_tol.
C1_EpsSchedule ==
    (UploadsLoop /\ RLeq(drv.eps_target, drv.eps_start)) =>
        LET H == drv.history
            L == Len(H)
        IN  /\ \A k \in 1..L : REq(H[k].eps, EpsAt(k - 1))
            /\ \A k \in 1..L : RLeq(drv.eps_target, H[k].eps) /\ RLeq(H[k].eps, drv.eps_start)
            /\ \A k \in 1..(L - 1) : RLt(H[k + 1].eps, H[k].eps)
            /\ LoopEnded =>
                 \A k \in 0..(L + 1) :
                    (k + 1 <= L) <=>
                        /\ RLeq(drv.eps_target, EpsAt(k))
                        /\ \A j \in 1..Min2(k, L) : ~RLeq(H[j].residual, drv.residual_tol)

\* C1 witness: a finished run of at least three steps that ends on eps_target itself
C1_Witness ==
    /\ UploadsLoop
    /\ drv.pc = "done"
    /\ Len(drv.history) >= 3
    /\ REq(drv.history[Len(drv.history)].eps, drv.eps_target)
    /\ ~RLeq(drv.history[Len(drv.history)].residual, drv.residual_tol)

\* C2: in every returned history each entry except the last has residual >
\* residual_tol, and if the last one also has, the next eps is below eps_target.
C2_StopsAtFirstMeetingStep ==
    (drv.pc = "done") =>
        LET H == drv.info.history
            L == Len(H)
        IN  /\ \A k \in 1..(L - 1) : ~RLeq(H[k].residual, drv.residual_tol)
            /\ (L >= 1 /\ ~RLeq(H[L].residual, drv.residual_tol)) =>
                   RLt(RMul(H[L].eps, drv.eps_factor), drv.eps_target)

\* the dynamic tolerance of a result record:
\* max(residual_tol, 1.10 * alpha_hat * final_eps * max_ND_comm)
RecordDynTol(info) ==
    DynTol(drv.residual_tol,
           DynFloor(info.alpha_hat, info.final_eps, info.commutator_diagnostics.max_ND_comm))

\* C3: in the result record of every driver variant, converged is true if and only if
\* final_residual <= max(residual_tol, 1.10 * alpha_hat * final_eps * max_ND_comm).
C3_ConvergedIffWithinDynTol ==
    (drv.pc = "done") =>
        (drv.info.converged <=> RLeq(drv.info.final_residual, RecordDynTol(drv.info)))

\* C4: bridge_null_refined (Uploads) on a non-empty list of valid edges and positive
\* parameters returns a record with converged and note, and never raises.
C4_ReturnsInsteadOfRaising ==
    (drv.pc # "idle" /\ drv.variant = "refined" /\ drv.edges # <<>>) =>
        /\ drv.pc # "raised"
        /\ drv.pc = "done" => {"converged", "note"} \subseteq DOMAIN drv.info

\* every edge of the list has N = R_true * D (R_true in units 1/RS) and D positive-definite
IdentityCycle(R_true) ==
    /\ drv.edges # <<>>
    /\ \A i \in 1..Len(drv.edges) :
          LET e == EdgeHeap[drv.edges[i]]
          IN  /\ \A j \in 1..3 : RS * e.N[j] = R_true * e.D[j]
              /\ EigMin2(e.D) > 0

RTrueRange == 0..(4 * RS)

C6_IterationCeiling ==
    /\ brent.pc # "idle" =>
          /\ brent.ntrial <= brent.max_iter
          /\ brent.pc = "loop" => brent.it < brent.max_iter
          /\ brent.pc = "done" =>
                BrentResult(brent).iters >= 1 /\ BrentResult(brent).iters <= brent.max_iter
    /\ jd.pc # "idle" =>
          /\ jd.sweeps <= jd.max_iter
          /\ jd.pc = "loop" => jd.iteration < jd.max_iter
          /\ jd.pc = "done" => jd.info.iterations <= jd.max_iter
    /\ ow.pc # "idle" =>
          /\ Len(ow.evaluated) <= ow.max_iter
          /\ ow.pc = "loop" => ow.iteration < ow.max_iter

\* C6 witness: a minimiser run that no convergence test ended, stopped by its ceiling
C6_Witness ==
    /\ brent.pc = "done"
    /\ brent.exit = "cap"
    /\ brent.max_iter >= 3
    /\ brent.ntrial = brent.max_iter
    /\ ~BrentParamTest(brent)

\* C7: _brent_scalar with max_iter > min_iter never stops before min_iter completed
\* passes, and when it stops before max_iter passes the parameter-scale test holds.
C7_ParamTestHoldsAtEarlyExit ==
    (brent.pc \in {"ret", "done"} /\ brent.max_iter > brent.min_iter) =>
        /\ brent.it >= brent.min_iter
        /\ BrentResult(brent).iters < brent.max_iter => BrentParamTest(brent)

\* C8: when _adaptive_bracket returns after fewer than max_expansions expansions,
\* f(b) <= (1 - rel_margin) * f(a) and f(b) <= (1 - rel_margin) * f(c).
C8_CenterBelowBothEnds ==
    (brk.pc \in {"ret", "done"} /\ brk.n < brk.max_expansions) =>
        /\ MarginHolds(Obj(brk.fd, brk.b), Obj(brk.fd, brk.a))
        /\ MarginHolds(Obj(brk.fd, brk.b), Obj(brk.fd, brk.c))

\* C9: every triple (a, b, c) that a driver hands to the minimiser has a < b < c.
C9_BracketStrictlyOrdered ==
    drv.pc # "idle" =>
        \A k \in 1..Len(drv.brackets) :
            drv.brackets[k].a < drv.brackets[k].b /\ drv.brackets[k].b < drv.brackets[k].c

SeqRange(sq) == {sq[i] : i \in 1..Len(sq)}

\* C10: when a bracket expansion used up all max_expansions expansions, the caller can
\* see it: a warning was raised for it or the result record carries an entry for it.
C10_ExhaustedBracketIsReported ==
    (/\ drv.pc = "done"
     /\ \E k \in 1..Len(drv.brackets) : drv.brackets[k].exit = "exhausted") =>
        \/ "bracket_exhausted" \in SeqRange(drv.warnings)
        \/ "bracket_exhausted" \in DOMAIN drv.info

\* the aggregate estimate R0 a driver starts from, on the edges as it prepared them
AggregateR0 ==
    IF drv.variant = "refined"
    THEN aggregate_center_R0(drv.heap, drv.edges).R0
    ELSE exp_aggregate_center_R0(drv.heap, drv.edges).R0

\* C11: in every driver the first bracket handed to the minimiser has its centre b at
\* the aggregate estimate R0, and the bracket of every later step has its centre b at
\* the R of the history entry recorded just before it.
C11_WarmStartedBrackets ==
    (drv.pc \in {"loop", "post", "done"}) =>
        \A k \in 1..Len(drv.brackets) :
            drv.brackets[k].b = (IF k = 1 THEN AggregateR0 ELSE drv.history[k - 1].R)

\* the N and D of every Edge object of a list are what they were before the call
EdgesUntouched(heap, edges) ==
    \A i \in 1..Len(edges) :
        /\ heap[edges[i]].N = EdgeHeap[edges[i]].N
        /\ heap[edges[i]].D = EdgeHeap[edges[i]].D
        /\ heap[edges[i]].Dtiny = EdgeHeap[edges[i]].Dtiny

\* C12: when a continuation driver (either norm variant) or optimize_weights has
\* returned, every Edge object of the caller's list has the N and D it had before
\* the call.
C12_CallerEdgesUnchanged ==
    /\ (drv.pc = "done" /\ drv.variant \in {"refined", "spectral"}) =>
           EdgesUntouched(drv.heap, drv.edges)
    /\ (ow.pc = "done") => EdgesUntouched(ow.heap, ow.edges)

\* two arrays of one square shape, each equal to its own conjugate transpose
ValidPair(N, D) == Shape(N) = Shape(D) /\ N.r = N.c /\ IsHermitian(N) /\ IsHermitian(D)

\* C13: in each of the three BridgeEdge classes, construction from N and D of different
\* shapes, of a non-square shape, or with N or D not Hermitian ends in an error, so an
\* Edge that exists after construction holds two same-shape square Hermitian matrices.
C13_InvalidEdgeIsRejected ==
    (call.pc # "idle" /\ call.op = "BridgeEdge") =>
        /\ (call.pc \in {"done", "raised"} /\ ~ValidPair(call.argN, call.argD)) =>
               call.pc = "raised"
        /\ call.pc = "done" => ValidPair(call.N, call.D)

\* the minimum eigenvalue of e.D is > 0; a D on the boundary is positive-definite
\* exactly when a shift below the unit was added to it
PosDef(e) == EigMin2(e.D) > 0 \/ (EigMin2(e.D) = 0 /\ e.Dtiny > 0)

\* C14: after _regularise_D has run on an edge list, the D of every edge of the list
\* is positive-definite, whatever the minimum eigenvalue of the D it was given.
C14_RegularisedDIsPositiveDefinite ==
    (call.pc = "done" /\ call.op = "_regularise_D") =>
        \A i \in 1..Len(call.edges) : PosDef(call.heap[call.edges[i]])

\* C15: the continuation driver called on an empty edge list never raises, and what it
\* returns is a record with final residual 0.
C15_EmptyListReturnsZeroResidual ==
    (drv.pc # "idle" /\ drv.edges = <<>>) =>
        /\ drv.pc # "raised"
        /\ drv.pc = "done" => REq(drv.info.final_residual, RInt(0))

RecordKeys ==
    {"final_eps", "final_R", "final_residual", "brent_iters_last", "history",
     "commutator_diagnostics", "alpha_hat", "dynamic_tol", "converged", "note"}

\* C16: the record returned by bridge_null_refined (Uploads) and by bridge_null_spectral
\* has the fields final_eps, final_R, final_residual, brent_iters_last, history,
\* commutator_diagnostics, alpha_hat, dynamic_tol, converged and note; its final_eps,
\* final_R and final_residual are those of the last history entry, and the R returned
\* with it is final_R.
C16_RecordIsComplete ==
    (drv.pc = "done" /\ drv.variant \in {"refined", "spectral"}) =>
        /\ RecordKeys \subseteq DOMAIN drv.info
        /\ drv.info.history # <<>>
        /\ LET last == drv.info.history[Len(drv.info.history)]
           IN  /\ drv.info.final_eps = last.eps
               /\ drv.info.final_R = last.R
               /\ drv.info.final_residual = last.residual
        /\ drv.R_ret = drv.info.final_R

\* C17: alpha_hat of the record of bridge_null_refined (Uploads) and of
\* bridge_null_spectral is the median, over the history entries with eps > 0, of
\* residual / (eps * max_ND_comm + floor), and 1.0 when there is no such entry.
C17_AlphaHatIsMedianRatio ==
    (drv.pc = "done" /\ drv.variant \in {"refined", "spectral"}) =>
        LET ratios == RatioValues(drv.info.history,
                                  drv.info.commutator_diagnostics.max_ND_comm, 1)
        IN  REq(drv.info.alpha_hat.v,
                IF ratios = <<>> THEN RInt(1) ELSE Median(ratios))

\* the norm of the commutator [A, B] in the norm the driver's version works with
DriverCommNorm(A, B) ==
    IF drv.variant = "refined" THEN CommNorm2(A, B) ELSE CommNormFro(A, B)

\* C18: the diagnostics a driver computed hold, for its edge list e_1..e_m, the maximum
\* of the norm of [N_i, N_j] and of [D_i, D_j] over the pairs i < j, and the maximum of
\* the norm of [N_i, D_j] over all ordered pairs (i, j), i = j included.
C18_DiagnosticsPairSets ==
    (drv.pc \in {"loop", "post", "done"}) =>
        LET m == Len(drv.edges)
            E(i) == EdgeHeap[drv.edges[i]]
        IN  /\ drv.comm_diag.max_NN_comm =
                  SetMax({0} \cup {DriverCommNorm(E(i).N, E(j).N) :
                                      <<i, j>> \in {q \in (1..m) \X (1..m) : q[1] < q[2]}})
            /\ drv.comm_diag.max_DD_comm =
                  SetMax({0} \cup {DriverCommNorm(E(i).D, E(j).D) :
                                      <<i, j>> \in {q \in (1..m) \X (1..m) : q[1] < q[2]}})
            /\ drv.comm_diag.max_ND_comm =
                  SetMax({0} \cup {DriverCommNorm(E(i).N, E(j).D) :
                                      <<i, j>> \in (1..m) \X (1..m)})

\* the label the chain of tests gives when its three dominance tests are taken in the
\* order given
RECURSIVE LabelInOrder(_, _, _)
LabelInOrder(cd, order, i) ==
    IF i > Len(order) THEN "mixed_structure"
    ELSE IF Dominates(cd, order[i]) THEN DominatedLabel(order[i])
    ELSE LabelInOrder(cd, order, i + 1)

TestOrders ==
    {<<"ND", "NN", "DD">>, <<"ND", "DD", "NN">>, <<"NN", "ND", "DD">>,
     <<"NN", "DD", "ND">>, <<"DD", "ND", "NN">>, <<"DD", "NN", "ND">>}

\* C19: _classify_commutator_structure returns one of the five labels;
\* effectively_commuting exactly when all three maxima are below 1e-12, which is when
\* is_effectively_commuting holds; otherwise X_dominated exactly when max_X exceeds 10
\* times the larger of the other two, and mixed_structure when no class does; at most
\* one class dominates, and the label is the same in every order of the three tests.
C19_ClassificationLabels ==
    (call.pc = "done" /\ call.op = "_classify_commutator_structure") =>
        LET cd == call.comm_diag
            commuting == /\ cd.max_NN_comm < ClsAtol
                         /\ cd.max_DD_comm < ClsAtol
                         /\ cd.max_ND_comm < ClsAtol
        IN  /\ call.label \in {"effectively_commuting", "ND_dominated", "NN_dominated",
                               "DD_dominated", "mixed_structure"}
            /\ (call.label = "effectively_commuting") <=> commuting
            /\ commuting <=> is_effectively_commuting_at(cd, ClsAtol)
            /\ \A X \in {"ND", "NN", "DD"} :
                   (call.label = DominatedLabel(X)) <=> (~commuting /\ Dominates(cd, X))
            /\ (call.label = "mixed_structure") <=>
                   (~commuting /\ \A X \in {"ND", "NN", "DD"} : ~Dominates(cd, X))
            /\ Cardinality({X \in {"ND", "NN", "DD"} : Dominates(cd, X)}) <= 1
            /\ \A order \in TestOrders :
                   ~commuting => call.label = LabelInOrder(cd, order, 1)

\* C19 witness: a triple above the threshold on which the first dominance test of the
\* chain fails and the second decides
C19_Witness ==
    /\ call.pc = "done"
    /\ call.op = "_classify_commutator_structure"
    /\ call.label = "NN_dominated"
    /\ call.comm_diag.max_ND_comm > 0
    /\ call.comm_diag.max_DD_comm > 0

\* the positions k, k-1, ..., 1
Descending(k) == [j \in 1..k |-> k + 1 - j]

\* C20: cycle_residual_fro and cycle_residual_spec both go through the list in its
\* order and put each new factor on the left, so that after k edges the running
\* product is U_k * ... * U_1 and the product returned on is U_m * ... * U_1; the value
\* returned is the norm of U - I, and it is 0 for the empty list.
C20_ProductOrder ==
    (call.pc # "idle" /\ call.op = "cycle_residual") =>
        /\ call.U_is_None <=> call.i = 1
        /\ ~call.U_is_None => call.U = Descending(call.i - 1)
        /\ call.pc = "done" =>
              /\ call.i = Len(call.edges) + 1
              /\ call.edges = <<>> => call.ret = 0
              /\ call.edges # <<>> =>
                    /\ call.U = Descending(Len(call.edges))
                    /\ call.ret = IF call.norm = "fro"
                                  THEN cycle_residual_fro(call.heap, call.edges, call.R)
                                  ELSE cycle_residual_spec(call.heap, call.edges, call.R)

\* C20 witness: a returned residual of three edges, the first two of which do not
\* commute
C20_Witness ==
    /\ call.pc = "done"
    /\ call.op = "cycle_residual"
    /\ call.norm = "spec"
    /\ Len(call.edges) = 3
    /\ call.U = <<3, 2, 1>>
    /\ CommT(call.heap[call.edges[1]].N, call.heap[call.edges[2]].N) # 0
    /\ call.ret > 0

\* the total off-diagonal energy before sweep k of joint_diag
TotalBefore(k) == IF k = 1 THEN jd.initial_total ELSE jd.history[k - 1].total_off_diag

OnSimplex(w) ==
    /\ w.d > 0
    /\ \A i \in 1..Len(w.v) : w.v[i] >= 0
    /\ SeqSum(w.v, 1) = w.d

\* u/u.d and w/w.d are the same vector
SameVector(u, w) ==
    /\ Len(u.v) = Len(w.v)
    /\ \A i \in 1..Len(u.v) : u.v[i] * w.d = w.v[i] * u.d

\* C22: project_simplex maps a vector of length m >= 1 to a vector of the same length
\* with entries >= 0 that sum to 1; a vector without a positive entry goes to
\* (1/m, ..., 1/m); and project_simplex of an output is that output.
C22_ProjectionOntoSimplex ==
    (call.pc \in {"projected", "done"} /\ call.op = "project_simplex") =>
        /\ Len(call.out.v) = Len(call.arg.v)
        /\ OnSimplex(call.out)
        /\ (\A i \in 1..Len(call.arg.v) : call.arg.v[i] <= 0) =>
               \A i \in 1..Len(call.out.v) : call.out.v[i] * Len(call.arg.v) = call.out.d
        /\ call.pc = "done" => SameVector(call.again, call.out)

\* C22 witness: a vector of three entries, none positive and one negative, projected
\* twice
C22_Witness ==
    /\ call.pc = "done"
    /\ call.op = "project_simplex"
    /\ Len(call.arg.v) = 3
    /\ \A i \in 1..3 : call.arg.v[i] <= 0
    /\ \E i \in 1..3 : call.arg.v[i] < 0
    /\ call.again = call.out

\* C23: for a nonzero CCC signal, execute_orthogonality_tests reports passed for
\* loop_reversal, commuting_loop and entanglement_visibility, whatever the random
\* perturbations of the test signals are.
C23_OrthogonalityTestsAlwaysPass ==
    (/\ call.pc = "done"
     /\ call.op = "execute_orthogonality_tests"
     /\ call.ccc_signal_normal # 0) =>
        \A k \in 1..3 : call.test_results[k].passed

\* C24: in _brent_scalar called with a < b < c, the trial point u of every pass lies
\* in [a, c] for the ends as they are when u is formed, a pass never moves a down or c
\* up, and the best point x stays in [a, c].
C24_TrialsStayInBracket ==
    (brent.pc # "idle" /\ brent.a0 < brent.b /\ brent.b < brent.c0) =>
        /\ brent.ntrial > 0 =>
              /\ brent.ua <= brent.u /\ brent.u <= brent.uc
              /\ brent.ua <= brent.a /\ brent.c <= brent.uc
        /\ brent.a0 <= brent.a /\ brent.c <= brent.c0
        /\ brent.a <= brent.x /\ brent.x <= brent.c

\* the least residual among the iterates evaluated
MinEvaluated == SetMin({ow.evaluated[k].g : k \in 1..Len(ow.evaluated)})

\* C25: optimize_weights with max_iter >= 1 returns weights that are >= 0 and sum to 1
\* and a residual that is the least residual of the iterates w_0 (uniform), w_1, ... it
\* evaluated and is the residual of the returned weights; the best residual so far
\* never goes up, and the returned residual is at most that of the uniform weights.
C25_BestIterateIsReturned ==
    (ow.pc # "idle" /\ ow.max_iter >= 1) =>
        /\ \A k \in 1..Len(ow.evaluated) : OnSimplex(ow.evaluated[k].w)
        /\ Len(ow.evaluated) >= 1 =>
              /\ ow.evaluated[1].w = Uniform(Len(ow.edges))
              /\ ~ow.best_residual.inf
              /\ ow.best_residual.g = MinEvaluated
              /\ \E k \in 1..Len(ow.evaluated) :
                    /\ ow.evaluated[k].w = ow.best_weights
                    /\ ow.evaluated[k].g = ow.best_residual.g
              /\ ow.best_residual.g <= ow.evaluated[1].g
        /\ ow.pc = "done" =>
              /\ Len(ow.evaluated) >= 1
              /\ OnSimplex(ow.best_weights)
              /\ ow.best_residual.g =
                     residual_func(ow.heap, ow.edges, ow.best_weights)

\* C25 witness: a returned run whose best weights are a later iterate than the uniform
\* start, with a residual below that of the uniform weights
C25_Witness ==
    /\ ow.pc = "done"
    /\ Len(ow.evaluated) >= 3
    /\ ow.best_weights # Uniform(Len(ow.edges))
    /\ ow.best_residual.g < ow.evaluated[1].g
    /\ ow.evaluated[Len(ow.evaluated)].g > ow.best_residual.g

\* C26: with obj_tol > 0 and max_iter > min_iter, _brent_scalar returns in the pass
\* it = min_iter for every objective, bracket and param_tol: the returned iteration
\* count is min_iter + 1, and the loop never runs to max_iter unless that is
\* min_iter + 1.
C26_ReturnsAtMinIter ==
    (brent.pc # "idle" /\ brent.obj_tol > 0 /\ brent.max_iter > brent.min_iter) =>
        /\ brent.pc # "raise"
        /\ brent.it <= brent.min_iter
        /\ brent.pc \in {"ret", "done"} =>
              /\ BrentResult(brent).iters = brent.min_iter + 1
              /\ brent.exit \in {"param", "obj"}

\* C26 witness: a run that returned from the test of line 218 in the pass it = min_iter
\* with passes to spare and a bracket that the parameter test does not accept
C26_Witness ==
    /\ brent.pc = "done"
    /\ brent.obj_tol > 0
    /\ brent.min_iter >= 1
    /\ brent.max_iter > brent.min_iter + 1
    /\ brent.exit = "obj"
    /\ BrentResult(brent).iters = brent.min_iter + 1
    /\ ~BrentParamTest(brent)

\* the edge objects as _scale_edges receives them in bridge_null_refined (Uploads)
BeforeScaling == RegulariseD([heap |-> EdgeHeap, warnings |-> <<>>], drv.edges, 1).heap

\* C27: after _scale_edges(edges) has returned the factor s, the N and the D of every
\* edge of the list are s times what they were before the call, also when one Edge
\* object stands in the list more than once.
C27_EveryEdgeScaledOnce ==
    (drv.pc \notin {"idle", "start"} /\ drv.variant = "refined") =>
        \A i \in 1..Len(drv.edges) :
            /\ drv.heap[drv.edges[i]].N =
                   MScale(BeforeScaling[drv.edges[i]].N,
                          ScaleFactor(BeforeScaling, drv.edges).n,
                          ScaleFactor(BeforeScaling, drv.edges).d)
            /\ drv.heap[drv.edges[i]].D =
                   MScale(BeforeScaling[drv.edges[i]].D,
                          ScaleFactor(BeforeScaling, drv.edges).n,
                          ScaleFactor(BeforeScaling, drv.edges).d)

\* the diagnostics of the edge matrices the objective of the driver reads
WorkingDiagnostics ==
    IF drv.variant = "refined" THEN commutator_diagnostics(drv.heap, drv.edges)
    ELSE exp_commutator_diagnostics(drv.heap, drv.edges)

\* C28: the commutator diagnostics of the result record, the bound eps * max_ND_comm of
\* every history entry and the dynamic tolerance are those of the edge matrices on
\* which the residual was evaluated, the edges after regularisation and scaling.
C28_DiagnosticsOfWorkingEdges ==
    (drv.pc = "done") =>
        /\ drv.info.commutator_diagnostics = WorkingDiagnostics
        /\ \A k \in 1..Len(drv.history) :
              "bound" \in DOMAIN drv.history[k] =>
                  drv.history[k].bound =
                      EpsComm(drv.history[k].eps, WorkingDiagnostics.max_ND_comm)
        /\ drv.variant = "refined" =>
              drv.info.dynamic_tol =
                  DynTol(drv.residual_tol,
                         DynFloor(alpha_hat_from_history(drv.history,
                                                         WorkingDiagnostics.max_ND_comm),
                                  drv.history[Len(drv.history)].eps,
                                  WorkingDiagnostics.max_ND_comm))

\* floor(log(x) / log(f)) for 0 < x <= 1 and 0 < f < 1: the largest k with f^k >= x
RECURSIVE LogFloor(_, _, _)
LogFloor(x, f, k) == IF RLt(RPow(f, k + 1), x) THEN k ELSE LogFloor(x, f, k + 1)

\* floor(log(eps_target / eps_start) / log(eps_factor)) + 1
StepBound == LogFloor(RQuot(drv.eps_target, drv.eps_start), drv.eps_factor, 0) + 1

\* C29: in bridge_null_refined (Uploads) and bridge_null_spectral started with
\* eps_start >= eps_target > 0 and 0 < eps_factor < 1, the loop makes at most
\* floor(log(eps_target / eps_start) / log(eps_factor)) + 1 steps whatever the
\* residuals are: the history never has more entries, after that many steps the loop
\* guard is false, and when the loop has ended the history has at least one entry.
C29_StepBound ==
    (UploadsLoop /\ RLeq(drv.eps_target, drv.eps_start)) =>
        /\ Len(drv.history) <= StepBound
        /\ (drv.pc = "loop" /\ Len(drv.history) = StepBound) =>
               ~LoopGuard(drv.eps, drv.eps_target)
        /\ LoopEnded => Len(drv.history) >= 1

\* C29 witness: a returned run that made all the steps of its bound, three or more,
\* without any residual meeting residual_tol
C29_Witness ==
    /\ UploadsLoop
    /\ drv.pc = "done"
    /\ RLeq(drv.eps_target, drv.eps_start)
    /\ StepBound >= 3
    /\ Len(drv.history) = StepBound
    /\ \A k \in 1..Len(drv.history) : ~RLeq(drv.history[k].residual, drv.residual_tol)

\* C30: in update_plots every index taken from the snapshot of timestamps is a valid
\* index of each other series when that series is read (no IndexError), and the value
\* read there belongs to the sample of the timestamp, under every interleaving with
\* the thread of update_data_buffer.
C30_ReadsBelongToTheSample ==
    (dash # Idle) =>
        /\ dash.rpc # "raised"
        /\ \A k \in 2..Len(dash.filtered) :
              \A j \in 1..Len(dash.filtered[k]) :
                  dash.filtered[k][j] = dash.filtered[1][j]
====
